---- MODULE Spec2Model ----
(***************************************************************************)
(* Control plane of the permissioning (registration) server: the poll      *)
(* handler that commits a node's reported activity, the scheduler that     *)
(* consumes update notifications and drives rounds through their phases,   *)
(* killRound, team creation, bans and round timeouts.                      *)
(*                                                                         *)
(* The network specifications model the poll handler from the test of the  *)
(* node's ban to the commit behind the polling lock, with the polls that   *)
(* are between the two kept in flight, and the persistence of round        *)
(* metrics and round errors as goroutines that run after the scheduler's   *)
(* step.  The front of the poll handler (preconditions, addresses, NDF,    *)
(* connectivity) and the node metric tracker have specifications of their  *)
(* own, with one step for every read or write of what the handlers, the    *)
(* probes and the tracker share.                                           *)
(***************************************************************************)
EXTENDS Naturals, Integers, Sequences, FiniteSets, TLC

\* ---------------------------------------------------------------- bounds
\* the network with failures: registered nodes, rounds created, failures
FaultNodes == 2
MaxRounds == 2
MaxFaults == 1
\* the network without failures: registered nodes, rounds created
NumNodes == 3
HappyRounds == 2
\* one team of three with failures: registered nodes (= team size), rounds
\* created, failures
TeamNodes == 3
TeamRounds == 1
TeamFaults == 1
\* one team of two with repeated failures: registered nodes (= team size),
\* rounds created, failures
RaceNodes == 2
RaceRounds == 1
RaceFaults == 2
\* a notification channel smaller than the network: registered nodes,
\* rounds created, capacity of the channel
SendNodes == 2
SendRounds == 1
SendCap == 1
\* the network at shutdown: registered nodes, rounds created, failures
StopNodes == 2
StopRounds == 1
StopFaults == 1

\* the front end with the NDF: nodes in the NDF, hosts and gateway ports
\* of the addresses, polls of a node in one metric interval, metric ticks
NdfNodes == 2
AddrHosts == 2
GwPorts == 1
MaxPolls == 1
MaxTicks == 1

\* SpecConn: the connectivity of one node over a few polls
ConnNodes == 1
ConnPolls == 3

\* SpecCompose: the nodes a round is composed from, the batch size
ComposeNodes == 3
ComposeBatch == 2

\* SpecMetric: polls of a node in one metric interval, metric ticks
MetricPolls == 1
MetricTicks == 2

\* SpecClock: nodes, rounds, the greatest realtime delay and delta, and the
\* instants the clock advances by
ClockNodes == 2
ClockRounds == 2
MaxDelay == 1
MaxDelta == 2
MaxNow == 2

\* SpecRetry: nodes, the polls a node can make past the retry count
\* before a tick, the probe goroutines of a node that have not finished
RetryNodes == 1
RetryExtra == 1
RetryProbes == 2

\* the polls that are in flight between two of their steps: in SpecConn
\* and SpecPollNdf, and in SpecNdf, SpecMetric and SpecRetry, where the
\* steps of the metric tracker come between the steps of a poll
MaxInflight == 2
NdfInflight == 1
MetricInflight == 1
RetryInflight == 1

\* SpecNodeStates: the goroutines that call storage.State, the node ids they
\* ask for
LookupCallers == 2
LookupIds == 1

\* ------------------------------------------------ current.Activity values
current_NOT_STARTED == 0
current_WAITING == 1
current_PRECOMPUTING == 2
current_STANDBY == 3
current_REALTIME == 4
current_COMPLETED == 5
current_ERROR == 6
current_CRASH == 7
current_NUM_STATES == 8

Activities == 0..(current_NUM_STATES - 1)

\* --------------------------------------------------- states.Round values
states_PENDING == 0
states_PRECOMPUTING == 1
states_STANDBY == 2
states_QUEUED == 3
states_REALTIME == 4
states_COMPLETED == 5
states_FAILED == 6

RoundStates == states_PENDING..states_FAILED

\* id.Permissioning, the scheduler's own identity (no node has this id)
Permissioning == 0

\* node.Status values used by the scheduler
Active == "Active"
Banned == "Banned"

\* NeedsRound answers
No == 0
Yes == 1
Maybe == 2

\* ------------------------------------------------------ transition table
\* For every destination activity: the activities it may be reached from
\* (one line per row of the table).
ValidFrom(to) ==
  CASE to = current_NOT_STARTED -> {}
    [] to = current_WAITING -> {current_NOT_STARTED, current_COMPLETED, current_ERROR}
    [] to = current_PRECOMPUTING -> {current_WAITING}
    [] to = current_STANDBY -> {current_WAITING, current_PRECOMPUTING}
    [] to = current_REALTIME -> {current_STANDBY}
    [] to = current_COMPLETED -> {current_REALTIME}
    [] to = current_ERROR -> {current_NOT_STARTED, current_WAITING, current_PRECOMPUTING,
                              current_STANDBY, current_REALTIME, current_COMPLETED}
    [] OTHER -> {}

\* a variant of the look-up that expects no round of a node in ERROR
NeedsRoundErrorNo(a) ==
  CASE a \in {current_NOT_STARTED, current_WAITING, current_ERROR} -> No
    [] a \in {current_PRECOMPUTING, current_STANDBY, current_REALTIME, current_COMPLETED} -> Yes
    [] OTHER -> Maybe

\* NeedsRound(activity): 0 no round expected, 1 must have a round, 2 either
NeedsRound(a) ==
  CASE a \in {current_NOT_STARTED, current_WAITING} -> No
    [] a \in {current_PRECOMPUTING, current_STANDBY, current_REALTIME, current_COMPLETED} -> Yes
    [] OTHER -> Maybe

\* The round phases in which a node may report the activity
RequiredRoundStates(a) ==
  CASE a = current_PRECOMPUTING -> {states_PRECOMPUTING}
    [] a = current_STANDBY -> {states_PRECOMPUTING}
    [] a = current_REALTIME -> {states_QUEUED, states_REALTIME}
    [] a = current_COMPLETED -> {states_REALTIME}
    [] OTHER -> {}

\* a variant of the look-up that reads the table with row and column
\* exchanged
IsValidTransitionFlipped(x, y) == x \in ValidFrom(y)

\* IsValidTransition(x, y): is row x, column y of the table checked
IsValidTransition(x, y) == y \in ValidFrom(x)

\* a variant of the look-up that wants the round in the phase named like
\* the activity
IsValidRoundStateSameName(a, phase) ==
  \/ a = current_PRECOMPUTING /\ phase = states_PRECOMPUTING
  \/ a = current_STANDBY /\ phase = states_STANDBY
  \/ a = current_REALTIME /\ phase = states_REALTIME
  \/ a = current_COMPLETED /\ phase = states_COMPLETED

IsValidRoundState(a, phase) == phase \in RequiredRoundStates(a)

\* ------------------------------------------------------------------ state
VARIABLES
  teamSize,       \* params.TeamSize
  roundLimit,     \* number of rounds the scheduler may create in this run
  nodeMap,        \* ids of the registered nodes (the node map's keys)
  stopped,        \* RegistrationImpl.Stopped
  halted,         \* the scheduler has returned with an error
  activity,       \* node.State activity, per node
  status,         \* node.State status, per node
  currentRound,   \* node.State current round: 0 = none, else the round id
  pollingLock,    \* node.State polling lock: TRUE = held
  pool,           \* waiting pool, online subset
  rounds,         \* every round.State created so far, indexed by round id
  roundMap,       \* ids whose record is in the round map
  roundTracker,   \* active round ids
  roundUpdates,   \* the round-updates log
  currentUpdate,  \* State.CurrentUpdate, the round update counter
  updateChan,     \* update notifications in flight to the scheduler
  roundMetrics,   \* per round id: number of round-metric rows persisted
  roundErrors,    \* per round id: the round-error rows persisted (their sources)
  deletions,      \* per round id: number of DeleteRound calls for it
  faults,         \* number of failures injected so far
  chk,            \* inputs and results of the table look-ups (SpecTable)
  faultLimit,     \* number of failures that may be injected in this run
  chanCap,        \* capacity of the update notification channel
  pre,            \* the poll whose precondition checks are followed (SpecPre)
  NdfReady,       \* RegistrationImpl.NdfReady
  nodeRec,        \* node.State per node: poll counter, addresses, connectivity
  ndfState,       \* NetworkState: the unpruned NDF, the signed full and partial NDF
  pruneList,      \* NetworkState: the nodes left out of the advertised NDF
  NDFLock,        \* RegistrationImpl.NDFLock: TRUE = held
  probes,         \* connectivity probes in flight: per node, the number of goroutines
  last,           \* the last call served by the front end and its result
  nodeMetrics,    \* the node-metric rows persisted
  crashed,        \* the process has been terminated by a panic
  RegParams,      \* the configuration and the failures of the environment of this run
  compose,        \* input and result of a round composition (SpecCompose)
  sc,             \* the clock and stateChanger: now, lastRealtime, realtimeDelay, realtimeDelta
  storageState,   \* storage.State: the NodeStates map, its records and the calls in progress
  spawned,        \* the goroutines started to persist round metrics and round errors (a bag)
  inflight,       \* per node: the poll of the node that is between two of its steps
  tracker         \* the pass of the metric tracker that is under way

vars == <<teamSize, roundLimit, nodeMap, stopped, halted, activity, status, currentRound, pollingLock, pool,
          rounds, roundMap, roundTracker, roundUpdates, currentUpdate,
          updateChan, roundMetrics, roundErrors, deletions, faults, chk, faultLimit, chanCap, pre,
          NdfReady, nodeRec, ndfState, pruneList, NDFLock, probes, last, nodeMetrics, crashed,
          RegParams, compose, sc, storageState, spawned, inflight, tracker>>

\* the state of the poll's front end, of the NDF and of the metric tracker
frontVars == <<NdfReady, nodeRec, ndfState, pruneList, NDFLock, probes, last, nodeMetrics, crashed,
               RegParams, compose, tracker>>

\* the state of the scheduler and of the poll's commit step
netVarsNoClock == <<spawned, inflight, teamSize, roundLimit, nodeMap, stopped, halted, activity, status, currentRound, pollingLock, pool,
                    rounds, roundMap, roundTracker, roundUpdates, currentUpdate,
                    updateChan, roundMetrics, roundErrors, deletions, faults, chk, faultLimit, chanCap, pre>>

netVars == <<storageState, sc, spawned, inflight, teamSize, roundLimit, nodeMap, stopped, halted, activity, status, currentRound, pollingLock, pool,
             rounds, roundMap, roundTracker, roundUpdates, currentUpdate,
             updateChan, roundMetrics, roundErrors, deletions, faults, chk, faultLimit, chanCap, pre>>

\* ---------------------------------------------------------- error payload
NoError == [Nil |-> TRUE, Id |-> 0, NodeId |-> 0, SigOK |-> TRUE]

RoundError(rid, src) == [Nil |-> FALSE, Id |-> rid, NodeId |-> src, SigOK |-> TRUE]

\* updateNotification.Error = msg.Error: the notification carries the
\* poll's payload as it came
Attached(e) == e

\* error payloads a node can put into a poll
ErrorPayloads(n) ==
  {NoError} \cup
  {[Nil |-> FALSE, Id |-> i, NodeId |-> n, SigOK |-> s] : i \in 0..roundLimit, s \in BOOLEAN}

\* ------------------------------------------------------------ round.State
\* The record of a round: id, topology, phase, ready counter, the phases
\* that have a timestamp, and the armed timer ("none" once the completed
\* flag is set). standbyReports and completedReports record which members'
\* STANDBY and COMPLETED reports the scheduler has processed for the round;
\* the program keeps only their count, in the ready counter. Path lists the
\* phases in the order the round entered them (the order in which the
\* timestamps were written), Errors the sources of the accumulated round
\* errors (-1 for an absent error), timedOut the timer that has failed the
\* round, queuedTs the timestamp of the phase QUEUED (the realtime start).
NewRoundState(rid, topology) ==
  [ID |-> rid, Topology |-> topology, State |-> states_PENDING,
   readyForTransition |-> 0, Stamped |-> {states_PENDING}, queuedTs |-> 0, timer |-> "none",
   standbyReports |-> {}, completedReports |-> {},
   Path |-> <<states_PENDING>>, Errors |-> <<>>, timedOut |-> "none"]

\* round.State.Update: the phase only moves to a greater phase
RoundStateUpdate(r, state) ==
  IF state <= r.State
    THEN [ok |-> FALSE, r |-> r]
    ELSE [ok |-> TRUE,
          r |-> [r EXCEPT !.State = state, !.readyForTransition = 0,
                          !.Stamped = @ \cup {state}, !.Path = Append(@, state)]]

\* round.State.NodeIsReadyForTransition: count the report
NodeIsReadyForTransition(r) == [r EXCEPT !.readyForTransition = @ + 1]

\* round.State.AppendError
AppendError(r, roundError) ==
  [r EXCEPT !.Errors = Append(@, IF roundError.Nil THEN -1 ELSE roundError.NodeId)]

\* round.State.BuildRoundInfo: the round's id and phase. The round record
\* holds no update id: the field has its zero value
BuildRoundInfo(r) == [ID |-> r.ID, UpdateID |-> 0, State |-> r.State]

\* ------------------------------------------- scheduler-side state, bundled
SchedState ==
  [currentRound |-> currentRound, pool |-> pool, rounds |-> rounds,
   roundMap |-> roundMap, roundTracker |-> roundTracker,
   roundUpdates |-> roundUpdates, currentUpdate |-> currentUpdate,
   roundMetrics |-> roundMetrics, roundErrors |-> roundErrors,
   deletions |-> deletions, halted |-> halted, sc |-> sc, spawned |-> spawned]

\* NewState inserts a dummy update into the log it creates: the round info
\* with every field at its zero value
DummyUpdate == [ID |-> 0, UpdateID |-> 0, State |-> states_PENDING]

\* State.AddRoundUpdate: a copy of the round info is appended to the log
\* with the update id the round info came with. The update counter is
\* left as it is
AddRoundUpdate(S, info) ==
  [S EXCEPT !.roundUpdates =
              Append(@, [ID |-> info.ID, UpdateID |-> info.UpdateID, State |-> info.State])]

ClearRound(S, n) == [S EXCEPT !.currentRound[n] = 0]

\* StoreRoundMetric: the metric of the round is inserted; an insert that
\* fails is logged and stores nothing
StoreRoundMetric(metrics, rid, insertOk) ==
  IF insertOk THEN [metrics EXCEPT ![rid] = @ + 1] ELSE metrics

\* storage.PermissioningDb.InsertRoundError and the handling of its result:
\* a failed insert is logged and stores nothing
InsertRoundError(errs, rid, roundError, insertOk) ==
  IF insertOk THEN [errs EXCEPT ![rid] = Append(@, roundError.NodeId)] ELSE errs

\* the goroutines in flight are a bag: a goroutine is started, and ends
Spawn(b, g) ==
  IF g \in DOMAIN b THEN [b EXCEPT ![g] = @ + 1]
  ELSE [x \in DOMAIN b \cup {g} |-> IF x = g THEN 1 ELSE b[x]]

Finish(b, g) ==
  IF b[g] = 1 THEN [x \in DOMAIN b \ {g} |-> b[x]] ELSE [b EXCEPT ![g] = @ - 1]

\* the number of goroutines in a bag
RECURSIVE BagCount(_, _)
BagCount(b, d) ==
  IF d = {} THEN 0
  ELSE LET g == CHOOSE g \in d : TRUE IN b[g] + BagCount(b, d \ {g})

BagSize(b) == BagCount(b, DOMAIN b)

\* go StoreRoundMetric(...), and the go func() of killRound: a goroutine
\* that stores the round metric and then, when there is a round error, the
\* error
PersistRound(rid, roundError) == [rid |-> rid, pc |-> "metric", roundError |-> roundError]

DeleteRound(S, rid) ==
  [S EXCEPT !.roundMap = @ \ {rid}, !.deletions[rid] = @ + 1]

\* a variant of killRound that deletes the round as soon as one member has
\* cleared it
killRoundDeletesEarly(S, rid, roundError) ==
  LET r0 == AppendError(S.rounds[rid], roundError)
      u == RoundStateUpdate(r0, states_FAILED)
      S1 == [S EXCEPT !.rounds[rid] = u.r,
                      !.roundTracker = IF u.ok THEN @ \ {rid} ELSE @]
      S2 == AddRoundUpdate(S1, BuildRoundInfo(u.r))
      topology == r0.Topology
      numClearedNodes ==
        Cardinality({i \in 1..Len(topology) : S.currentRound[topology[i]] # rid})
  IN IF numClearedNodes >= 1 THEN DeleteRound(S2, rid) ELSE S2

\* killRound: the round fails and the failure is logged; the round is
\* deleted when every member has cleared it; when exactly one member has,
\* a goroutine is started that stores the metric and the error
killRound(S, rid, roundError) ==
  LET r0 == AppendError(S.rounds[rid], roundError)
      u == RoundStateUpdate(r0, states_FAILED)
      S1 == [S EXCEPT !.rounds[rid] = u.r,
                      !.roundTracker = IF u.ok THEN @ \ {rid} ELSE @]
      S2 == AddRoundUpdate(S1, BuildRoundInfo(u.r))
      topology == r0.Topology
      topologyLen == Len(topology)
      numClearedNodes ==
        Cardinality({i \in 1..topologyLen : S.currentRound[topology[i]] # rid})
  IN IF numClearedNodes = topologyLen
       THEN DeleteRound(S2, rid)
       ELSE IF numClearedNodes = 1
         THEN [S2 EXCEPT !.spawned = Spawn(@, PersistRound(rid, roundError))]
         ELSE S2


\* ------------------------------------------------------------- scheduler
\* the error the scheduler signs itself when a banned node had a round
banError(rid) == RoundError(rid, Permissioning)

\* the error the scheduler signs itself when a round timer fires
timeoutError(rid) == RoundError(rid, Permissioning)

\* a variant of the STANDBY case that moves the round on the first report
HandleStandbyEarly(S, n, rid) ==
  LET r1 == [NodeIsReadyForTransition(S.rounds[rid]) EXCEPT !.standbyReports = @ \cup {n}]
      u1 == RoundStateUpdate(r1, states_STANDBY)
      r2 == [u1.r EXCEPT !.timer = "realtime"]
      u2 == RoundStateUpdate(r2, states_QUEUED)
  IN IF ~u1.ok THEN [S EXCEPT !.rounds[rid] = r1]
     ELSE IF ~u2.ok THEN [S EXCEPT !.rounds[rid] = r2]
     ELSE AddRoundUpdate([S EXCEPT !.rounds[rid] = u2.r], BuildRoundInfo(u2.r))

\* a variant of the STANDBY case that does not end the precomputation timer
\* when the round leaves PRECOMPUTING
HandleStandbyKeepsTimer(S, n, rid) ==
  LET r1 == [NodeIsReadyForTransition(S.rounds[rid]) EXCEPT !.standbyReports = @ \cup {n}]
      stateComplete == r1.readyForTransition = Len(r1.Topology)
      u1 == RoundStateUpdate(r1, states_STANDBY)
      u2 == RoundStateUpdate(u1.r, states_QUEUED)
  IN IF ~stateComplete THEN [S EXCEPT !.rounds[rid] = r1]
     ELSE IF ~u1.ok THEN [S EXCEPT !.rounds[rid] = r1]
     ELSE IF ~u2.ok THEN [S EXCEPT !.rounds[rid] = u1.r]
     ELSE AddRoundUpdate([S EXCEPT !.rounds[rid] = u2.r], BuildRoundInfo(u2.r))

\* a variant of the STANDBY case that moves the round to QUEUED without
\* moving it to STANDBY first
HandleStandbySkipsStandby(S, n, rid) ==
  LET r1 == [NodeIsReadyForTransition(S.rounds[rid]) EXCEPT !.standbyReports = @ \cup {n}]
      stateComplete == r1.readyForTransition = Len(r1.Topology)
      r2 == [r1 EXCEPT !.timer = "realtime"]
      u2 == RoundStateUpdate(r2, states_QUEUED)
  IN IF ~stateComplete THEN [S EXCEPT !.rounds[rid] = r1]
     ELSE IF ~u2.ok THEN [S EXCEPT !.rounds[rid] = r2]
     ELSE AddRoundUpdate([S EXCEPT !.rounds[rid] = u2.r], BuildRoundInfo(u2.r))

\* a variant of the start time that is not held back by the last round's
startTimeNoDelta(c) == c.now + c.realtimeDelay

\* the realtime start of a round that is queued now: the delay after now,
\* or the minimum distance after the last realtime start if that is later
startTime(c) ==
  LET start == c.now + c.realtimeDelay
      nextRoundMinimum == c.lastRealtime + c.realtimeDelta
  IN IF nextRoundMinimum > start THEN nextRoundMinimum ELSE start

\* case current.STANDBY of HandleNodeUpdates
HandleStandby(S, n, rid) ==
  LET r1 == [NodeIsReadyForTransition(S.rounds[rid]) EXCEPT !.standbyReports = @ \cup {n}]
      stateComplete == r1.readyForTransition = Len(r1.Topology)
      u1 == RoundStateUpdate(r1, states_STANDBY)
      \* DenoteRoundCompleted ends the precomputation timer, the realtime
      \* timer is started
      r2 == [u1.r EXCEPT !.timer = "realtime"]
      start == startTime(S.sc)
      S2 == [S EXCEPT !.sc.lastRealtime = start]
      u2 == RoundStateUpdate(r2, states_QUEUED)
      r3 == [u2.r EXCEPT !.queuedTs = start]
  IN IF ~stateComplete THEN [S EXCEPT !.rounds[rid] = r1]
     ELSE IF ~u1.ok THEN [S EXCEPT !.rounds[rid] = r1]
     ELSE IF ~u2.ok THEN [S2 EXCEPT !.rounds[rid] = r2]
     ELSE AddRoundUpdate([S2 EXCEPT !.rounds[rid] = r3], BuildRoundInfo(r3))

\* case current.REALTIME of HandleNodeUpdates
HandleRealtime(S, n, rid) ==
  IF S.rounds[rid].State # states_REALTIME
    THEN [S EXCEPT !.rounds[rid] = RoundStateUpdate(@, states_REALTIME).r]
    ELSE S

\* a variant of the COMPLETED case that completes the round on the first
\* report
HandleCompletedEarly(S, n, rid) ==
  LET S1 == ClearRound(S, n)
      r1 == [NodeIsReadyForTransition(S.rounds[rid]) EXCEPT !.completedReports = @ \cup {n}]
      u == RoundStateUpdate(r1, states_COMPLETED)
      S2 == AddRoundUpdate([S1 EXCEPT !.rounds[rid] = u.r], BuildRoundInfo(u.r))
      S3 == [S2 EXCEPT !.rounds[rid].timer = "none", !.roundTracker = @ \ {rid}]
  IN IF ~u.ok THEN [S1 EXCEPT !.rounds[rid] = r1]
     ELSE [S3 EXCEPT !.spawned = Spawn(@, PersistRound(rid, NoError))]

\* case current.COMPLETED of HandleNodeUpdates
HandleCompleted(S, n, rid) ==
  LET S1 == ClearRound(S, n)
      r1 == [NodeIsReadyForTransition(S.rounds[rid]) EXCEPT !.completedReports = @ \cup {n}]
      stateComplete == r1.readyForTransition = Len(r1.Topology)
      u == RoundStateUpdate(r1, states_COMPLETED)
      S2 == AddRoundUpdate([S1 EXCEPT !.rounds[rid] = u.r], BuildRoundInfo(u.r))
      \* DenoteRoundCompleted, RemoveActiveRound, go StoreRoundMetric
      S3 == [S2 EXCEPT !.rounds[rid].timer = "none", !.roundTracker = @ \ {rid}]
  IN IF ~stateComplete THEN [S1 EXCEPT !.rounds[rid] = r1]
     ELSE IF ~u.ok THEN [S1 EXCEPT !.rounds[rid] = r1]
     ELSE [S3 EXCEPT !.spawned = Spawn(@, PersistRound(rid, NoError))]

\* case current.ERROR of HandleNodeUpdates
HandleError(S, n, rid, roundError) ==
  LET S1 == [ClearRound(S, n) EXCEPT !.rounds[rid].timer = "none"]
  IN killRound(S1, rid, roundError)

\* a variant of HandleNodeUpdates that dispatches the reported activity
\* although the node's round has failed
HandleNodeUpdatesNoRewrite(S, update) ==
  LET n == update.Node
      rid == S.currentRound[n]
      hasRound == rid # 0
      toActivity == update.ToActivity
  IN IF update.ToStatus = Banned
       THEN IF hasRound
              THEN killRound(ClearRound(S, n), rid, banError(rid))
              ELSE [S EXCEPT !.pool = @ \ {n}]
       ELSE CASE toActivity = current_WAITING -> [S EXCEPT !.pool = @ \cup {n}]
              [] toActivity = current_STANDBY /\ hasRound -> HandleStandby(S, n, rid)
              [] toActivity = current_REALTIME /\ hasRound -> HandleRealtime(S, n, rid)
              [] toActivity = current_COMPLETED /\ hasRound -> HandleCompleted(S, n, rid)
              [] toActivity = current_ERROR /\ hasRound -> HandleError(S, n, rid, update.Error)
              [] OTHER -> S

\* stateChanger.HandleNodeUpdates, without the release of the polling lock
HandleNodeUpdates(S, update) ==
  LET n == update.Node
      rid == S.currentRound[n]
      hasRound == rid # 0
      roundErrored == /\ hasRound
                      /\ S.rounds[rid].State = states_FAILED
                      /\ update.ToActivity # current_ERROR
      toActivity == IF roundErrored THEN current_ERROR ELSE update.ToActivity
  IN IF update.ToStatus = Banned
       THEN IF hasRound
              THEN killRound(ClearRound(S, n), rid, banError(rid))
              ELSE [S EXCEPT !.pool = @ \ {n}]
       ELSE CASE toActivity = current_WAITING -> [S EXCEPT !.pool = @ \cup {n}]
              [] toActivity = current_STANDBY /\ hasRound -> HandleStandby(S, n, rid)
              [] toActivity = current_REALTIME /\ hasRound -> HandleRealtime(S, n, rid)
              [] toActivity = current_COMPLETED /\ hasRound -> HandleCompleted(S, n, rid)
              [] toActivity = current_ERROR /\ hasRound -> HandleError(S, n, rid, update.Error)
              [] OTHER -> S

\* ----------------------------------------------------------- poll handler
\* node.State.Update: the edge check of a reported activity
NodeStateUpdate(n, newActivity) ==
  LET oldActivity == activity[n]
      rid == currentRound[n]
  IN IF oldActivity = newActivity THEN [update |-> FALSE, err |-> FALSE]
     ELSE IF ~IsValidTransition(newActivity, oldActivity) THEN [update |-> FALSE, err |-> TRUE]
     ELSE IF /\ NeedsRound(newActivity) = Yes
             /\ \/ rid = 0
                \/ ~IsValidRoundState(newActivity, rounds[rid].State)
       THEN [update |-> FALSE, err |-> TRUE]
     ELSE IF NeedsRound(newActivity) = No /\ rid # 0 THEN [update |-> FALSE, err |-> TRUE]
     ELSE [update |-> TRUE, err |-> FALSE]

\* verifyError: TRUE when the poll's error payload is acceptable
verifyError(n, e) ==
  \/ e.Nil
  \/ /\ e.Id # 0 => (currentRound[n] # 0 /\ e.Id = currentRound[n])
     /\ e.NodeId \in nodeMap
     /\ e.SigOK

UpdateNotification(n, toActivity, toStatus, e) ==
  [Node |-> n, ToActivity |-> toActivity, ToStatus |-> toStatus, Error |-> e]

\* NetworkState.SendUpdateNotification: the notification is put on the
\* channel unless the channel is full, in which case the send fails
SendUpdateNotification(nun) ==
  IF Len(updateChan) < chanCap THEN <<nun>> ELSE <<>>

\* a variant of the poll that commits without verifying the error payload
PollOutcomeUnverified(n, a, e, isBanned, stoppedRead) ==
  LET reject == [update |-> FALSE, activity |-> activity[n], sent |-> <<>>, locked |-> pollingLock[n]]
      u == NodeStateUpdate(n, a)
      notification ==
        UpdateNotification(n, a, status[n], IF a = current_ERROR THEN Attached(e) ELSE NoError)
  IN IF isBanned THEN reject
     ELSE IF a = current_ERROR /\ e.Nil THEN reject
     ELSE IF a = current_NOT_STARTED THEN reject
     ELSE IF ~u.update THEN reject
     ELSE [update |-> TRUE, activity |-> a,
           sent |-> IF stoppedRead THEN <<>> ELSE SendUpdateNotification(notification),
           locked |-> IF stoppedRead THEN pollingLock[n] ELSE TRUE]

\* RegistrationImpl.Poll for a poll of node n that reports activity a with
\* error payload e, that read isBanned from the node's banned flag and
\* stoppedRead from the Stopped flag, and that now has the polling lock
\* (or goes on without it, having read Stopped as set): what the poll does
\* to the node's activity, the notification channel and the polling lock.
\* The two flags are read before the wait for the lock, everything else at
\* the commit
PollOutcome(n, a, e, isBanned, stoppedRead) ==
  LET reject == [update |-> FALSE, activity |-> activity[n], sent |-> <<>>, locked |-> pollingLock[n]]
      u == NodeStateUpdate(n, a)
      notification ==
        UpdateNotification(n, a, status[n], IF a = current_ERROR THEN Attached(e) ELSE NoError)
  IN IF isBanned THEN reject
     ELSE IF a = current_ERROR /\ e.Nil THEN reject
     ELSE IF a = current_NOT_STARTED THEN reject
     ELSE IF ~stoppedRead /\ ~verifyError(n, e) THEN reject
     ELSE IF ~u.update THEN reject
     ELSE [update |-> TRUE, activity |-> a,
           sent |-> IF stoppedRead THEN <<>> ELSE SendUpdateNotification(notification),
           locked |-> IF stoppedRead THEN pollingLock[n] ELSE TRUE]


\* the poll all of whose reads are made in the present state
PollNow(n, a, e) == PollOutcome(n, a, e, status[n] = Banned, stopped)

\* ---------------------------------------------------------------- actions
\* the first instant of a run: later than the zero time by more than any
\* configured duration
Epoch == MaxDelay + MaxDelta + 1

\* a clock that stands still and a scheduler without realtime delay
StillClock == [now |-> Epoch, lastRealtime |-> 0, realtimeDelay |-> 0, realtimeDelta |-> 0]

\* no pass of the metric tracker is under way
NoPass == [pc |-> "none"]

\* a goroutine that is not in a call of storage.State
IdleCall == [pc |-> "idle", op |-> "none", id |-> 0, newActivity |-> current_NOT_STARTED,
             node |-> 0, err |-> FALSE]

\* storage.NewState: an empty NodeStates map (0 stands for the nil entry),
\* no NodeState allocated, and an array of network status counters none of
\* which is allocated: every entry is a nil pointer
NewState ==
  [NodeStates |-> [i \in 1..LookupIds |-> 0],
   records |-> <<>>,
   NetworkStatus |-> [r \in RoundStates |-> [nil |-> TRUE, count |-> 0]],
   fatal |-> FALSE,
   panicked |-> FALSE,
   calls |-> [c \in 1..LookupCallers |-> IdleCall]]

\* the network after registration: the nodes in banned have been banned
InitNetWith(registered, sizes, limit, banned) ==
  /\ storageState = NewState
  /\ spawned = <<>>
  /\ inflight = <<>>
  /\ teamSize \in sizes
  /\ roundLimit = limit
  /\ nodeMap = registered
  /\ stopped = FALSE
  /\ halted = FALSE
  /\ activity = [n \in registered |-> current_NOT_STARTED]
  /\ status = [n \in registered |-> IF n \in banned THEN Banned ELSE Active]
  /\ currentRound = [n \in registered |-> 0]
  /\ pollingLock = [n \in registered |-> FALSE]
  /\ pool = {}
  /\ rounds = <<>>
  /\ roundMap = {}
  /\ roundTracker = {}
  /\ roundUpdates = <<DummyUpdate>>
  /\ currentUpdate = 0
  /\ updateChan = <<>>
  /\ roundMetrics = [r \in 1..limit |-> 0]
  /\ roundErrors = [r \in 1..limit |-> <<>>]
  /\ deletions = [r \in 1..limit |-> 0]
  /\ faults = 0

InitNet(registered, sizes, limit) == InitNetWith(registered, sizes, limit, {})

InitFor(registered, sizes, limit) ==
  /\ InitNet(registered, sizes, limit)
  /\ sc = StillClock

\* in the network specifications no table look-up is pending
NoLookup ==
  chk = [to |-> current_NOT_STARTED, from |-> current_NOT_STARTED, phase |-> states_PENDING,
         done |-> TRUE, valid |-> FALSE, needs |-> No, roundOk |-> FALSE]

\* the scheduler installs what a handler computed
Install(S) ==
  /\ currentRound' = S.currentRound
  /\ pool' = S.pool
  /\ rounds' = S.rounds
  /\ roundMap' = S.roundMap
  /\ roundTracker' = S.roundTracker
  /\ roundUpdates' = S.roundUpdates
  /\ currentUpdate' = S.currentUpdate
  /\ roundMetrics' = S.roundMetrics
  /\ roundErrors' = S.roundErrors
  /\ deletions' = S.deletions
  /\ halted' = S.halted
  /\ sc' = S.sc
  /\ spawned' = S.spawned

\* the scheduler creates a team as soon as the pool holds one
CanCreateRound ==
  /\ ~stopped
  /\ ~halted
  /\ Cardinality(pool) >= teamSize
  /\ Len(rounds) < roundLimit

\* a failure is injected when a node reports ERROR although its round, if
\* any, has not failed; a report of ERROR for a failed round is the node's
\* answer to that failure
IsFault(n, a) ==
  /\ a = current_ERROR
  /\ currentRound[n] # 0 => rounds[currentRound[n]].State # states_FAILED

\* the commit of a poll: the node's activity, the notification channel and
\* the polling lock become what the poll's outcome says
Commit(n, a, out) ==
  /\ IsFault(n, a) => faults < faultLimit
  /\ faults' = IF IsFault(n, a) THEN faults + 1 ELSE faults
  /\ activity' = [activity EXCEPT ![n] = out.activity]
  /\ updateChan' = updateChan \o out.sent
  /\ pollingLock' = [pollingLock EXCEPT ![n] = out.locked]

\* a poll of node n that reports activity a with error payload e, and
\* between whose reads of the banned flag and of the Stopped flag and whose
\* commit neither flag is written. Such a poll is taken as one step: before
\* its commit it reads only the two flags, which only Ban and Stop write,
\* so its reads can be moved up to its commit past every other step. A
\* poll that Ban or Stop overtakes is recorded at that step (inflight) and
\* commits with what it read (PollCommit). A poll that changes nothing is
\* no step
Poll(n, a, e) ==
  LET out == PollNow(n, a, e)
  IN /\ stopped \/ ~pollingLock[n]
     /\ out.update
     /\ Commit(n, a, out)
     /\ UNCHANGED <<storageState, sc, spawned, inflight, teamSize, roundLimit, nodeMap, stopped, halted, status, currentRound, pool, rounds, roundMap,
                    roundTracker, roundUpdates, currentUpdate, roundMetrics,
                    roundErrors, deletions, chk, faultLimit, chanCap, pre, frontVars>>

\* a poll of node n that found the node not banned and has not read the
\* Stopped flag yet, and one that has also read the flag as not set and
\* goes for the polling lock
PollChecked(n) == [node |-> n, pc |-> "checked"]

PollServed(n) == [node |-> n, pc |-> "served", stopped |-> FALSE]

\* the polls of node n that are in flight
PollsOf(n) == {g \in DOMAIN inflight : g.node = n}

\* the polls that the write of the Stopped flag overtakes: of the nodes ns,
\* a poll that was in flight before it read the flag has now read it, and
\* a poll that has read the flag joins those in flight
RECURSIVE Overtaken(_, _)
Overtaken(b, ns) ==
  IF ns = {} THEN b
  ELSE LET n == CHOOSE n \in ns : TRUE
       IN Overtaken(Spawn(IF PollChecked(n) \in DOMAIN b THEN Finish(b, PollChecked(n)) ELSE b,
                          PollServed(n)),
                    ns \ {n})

\* the poll of node n that a write of a flag overtook commits: it takes
\* the polling lock unless it read the Stopped flag as set, and goes on as
\* a poll of a node that is not banned, whatever the flag is by now
PollCommit(g, a, e) ==
  /\ g \in DOMAIN inflight
  /\ g \in {PollChecked(g.node), PollServed(g.node)}
  /\ \E stoppedRead \in {g.pc = "checked" /\ stopped} :
       /\ stoppedRead \/ ~pollingLock[g.node]
       /\ Commit(g.node, a, PollOutcome(g.node, a, e, FALSE, stoppedRead))
  /\ inflight' = Finish(inflight, g)
  /\ UNCHANGED <<storageState, sc, spawned, teamSize, roundLimit, nodeMap, stopped, halted, status,
                 currentRound, pool, rounds, roundMap, roundTracker, roundUpdates, currentUpdate,
                 roundMetrics, roundErrors, deletions, chk, faultLimit, chanCap, pre, frontVars>>

\* the scheduler takes the next update notification, handles it and
\* releases the node's polling lock
SchedulerUpdate ==
  /\ ~halted
  /\ updateChan # <<>>
  /\ ~CanCreateRound
  /\ LET update == Head(updateChan)
     IN /\ Install(HandleNodeUpdates(SchedState, update))
        /\ pollingLock' = [pollingLock EXCEPT ![update.Node] = FALSE]
  /\ updateChan' = Tail(updateChan)
  /\ UNCHANGED <<storageState, inflight, teamSize, roundLimit, nodeMap, stopped, activity, status, faults, chk, faultLimit, chanCap, pre, frontVars>>

\* a step of a goroutine started to persist a round: first the insert of
\* the round metric, then, when the round has an error, the insert of the
\* round error. An insert that fails is a failure injected into the run
RoundGoroutine(g, insertOk) ==
  /\ g \in DOMAIN spawned
  /\ ~insertOk => faults < faultLimit
  /\ faults' = IF insertOk THEN faults ELSE faults + 1
  /\ \/ /\ g.pc = "metric"
        /\ roundMetrics' = StoreRoundMetric(roundMetrics, g.rid, insertOk)
        /\ roundErrors' = roundErrors
        /\ spawned' = IF g.roundError.Nil THEN Finish(spawned, g)
                      ELSE Spawn(Finish(spawned, g), [g EXCEPT !.pc = "error"])
     \/ /\ g.pc = "error"
        /\ roundMetrics' = roundMetrics
        /\ roundErrors' = InsertRoundError(roundErrors, g.rid, g.roundError, insertOk)
        /\ spawned' = Finish(spawned, g)
  /\ UNCHANGED <<storageState, sc, inflight, teamSize, roundLimit, nodeMap, stopped, halted, activity,
                 status, currentRound, pollingLock, pool, rounds, roundMap, roundTracker,
                 roundUpdates, currentUpdate, updateChan, deletions, chk, faultLimit, chanCap,
                 pre, frontVars>>

\* the goroutines run whenever they are scheduled
RunGoroutines == \E g \in DOMAIN spawned, insertOk \in BOOLEAN : RoundGoroutine(g, insertOk)

\* topologies createSimpleRound can return: teamSize distinct nodes of the
\* pool in any order (random ordering)
Teams == {t \in [1..teamSize -> pool] : \A i, j \in 1..teamSize : i # j => t[i] # t[j]}

\* createSimpleRound: the drawn nodes leave the pool
createSimpleRound(S, topology) ==
  [S EXCEPT !.pool = @ \ {topology[i] : i \in 1..Len(topology)}]

\* startRound: the round record is created PENDING, moved to PRECOMPUTING,
\* assigned to its nodes, published and tracked; the precomputation timer
\* is started. A node has at most one current round: a drawn node that
\* still has one cannot be assigned the new round, startRound fails and
\* the scheduler returns with the error
startRound(S, topology) ==
  LET rid == Len(S.rounds) + 1
      r == [RoundStateUpdate(NewRoundState(rid, topology), states_PRECOMPUTING).r
              EXCEPT !.timer = "precomputation"]
      members == {topology[i] : i \in 1..Len(topology)}
      S1 == [S EXCEPT !.rounds = Append(@, r),
                      !.roundMap = @ \cup {rid},
                      !.currentRound = [n \in DOMAIN @ |-> IF n \in members THEN rid ELSE @[n]],
                      !.roundTracker = @ \cup {rid}]
  IN IF \E n \in members : S.currentRound[n] # 0
       THEN [S EXCEPT !.halted = TRUE]
       ELSE AddRoundUpdate(S1, BuildRoundInfo(r))

CreateRound ==
  /\ CanCreateRound
  /\ \E topology \in Teams :
       Install(startRound(createSimpleRound(SchedState, topology), topology))
  /\ UNCHANGED <<storageState, inflight, teamSize, roundLimit, nodeMap, stopped, activity, status, pollingLock, updateChan, faults, chk, faultLimit, chanCap, pre, frontVars>>

\* the timer of round rid fires before the round finished the phase
RoundTimeout(rid) ==
  /\ rid \in 1..Len(rounds)
  /\ ~halted
  /\ ~CanCreateRound
  /\ rounds[rid].timer # "none"
  /\ rounds[rid].State \notin {states_COMPLETED, states_FAILED}
  /\ Install(killRound([SchedState EXCEPT !.rounds[rid].timer = "none",
                                          !.rounds[rid].timedOut = rounds[rid].timer],
                       rid, timeoutError(rid)))
  /\ faults < faultLimit
  /\ faults' = faults + 1
  /\ UNCHANGED <<storageState, inflight, teamSize, roundLimit, nodeMap, stopped, activity, status, pollingLock, updateChan, chk, faultLimit, chanCap, pre, frontVars>>

\* node n is banned: the ban takes the polling lock and notifies the
\* scheduler. A poll of the node that has passed the test of the banned
\* flag by then (overtaken) goes on
Ban(n, overtaken) ==
  /\ ~pollingLock[n]
  /\ status[n] # Banned
  /\ status' = [status EXCEPT ![n] = Banned]
  /\ pollingLock' = [pollingLock EXCEPT ![n] = TRUE]
  /\ updateChan' = Append(updateChan, UpdateNotification(n, current_ERROR, Banned, NoError))
  /\ faults < faultLimit
  /\ faults' = faults + 1
  /\ overtaken => BagSize(inflight) < MaxInflight
  /\ inflight' = IF overtaken THEN Spawn(inflight, PollChecked(n)) ELSE inflight
  /\ UNCHANGED <<storageState, sc, spawned, teamSize, roundLimit, nodeMap, stopped, halted, activity, currentRound, pool, rounds, roundMap,
                 roundTracker, roundUpdates, currentUpdate, roundMetrics,
                 roundErrors, deletions, chk, faultLimit, chanCap, pre, frontVars>>

\* the failures a run may inject and the capacity of the notification
\* channel
Limits(f, c) == faultLimit = f /\ chanCap = c

\* in the network specifications no poll is at the precondition checks
NoPrecheck == pre = [done |-> TRUE]

\* in the network specifications the front end, the NDF and the metric
\* tracker are left out
NoFront ==
  /\ NdfReady = TRUE
  /\ nodeRec = <<>>
  /\ ndfState = <<>>
  /\ pruneList = {}
  /\ NDFLock = FALSE
  /\ probes = <<>>
  /\ last = [op |-> "none"]
  /\ nodeMetrics = <<>>
  /\ crashed = FALSE
  /\ RegParams = <<>>
  /\ compose = [done |-> TRUE]
  /\ tracker = NoPass

Init ==
  /\ InitFor(1..FaultNodes, 1..FaultNodes, MaxRounds)
  /\ Limits(MaxFaults, FaultNodes)
  /\ NoLookup
  /\ NoPrecheck
  /\ NoFront

Next ==
  \/ \E n \in nodeMap, a \in Activities : \E e \in ErrorPayloads(n) : Poll(n, a, e)
  \/ SchedulerUpdate
  \/ RunGoroutines
  \/ CreateRound
  \/ \E rid \in 1..roundLimit : RoundTimeout(rid)
  \/ \E n \in nodeMap, overtaken \in BOOLEAN : Ban(n, overtaken)
  \/ \E g \in DOMAIN inflight, a \in Activities : \E e \in ErrorPayloads(g.node) :
       PollCommit(g, a, e)

Spec == Init /\ [][Next]_vars

\* ------------------------------------------- the network without failures
InitHappy ==
  /\ InitFor(1..NumNodes, 2..NumNodes, HappyRounds)
  /\ Limits(0, NumNodes)
  /\ NoLookup
  /\ NoPrecheck
  /\ NoFront

\* a node that follows the protocol reports the activities in their order
\* and omits none
NextActivity(a) ==
  CASE a = current_NOT_STARTED -> current_WAITING
    [] a = current_WAITING -> current_PRECOMPUTING
    [] a = current_PRECOMPUTING -> current_STANDBY
    [] a = current_STANDBY -> current_REALTIME
    [] a = current_REALTIME -> current_COMPLETED
    [] OTHER -> current_WAITING

NextHappy ==
  \/ \E n \in nodeMap : Poll(n, NextActivity(activity[n]), NoError)
  \/ SchedulerUpdate
  \/ RunGoroutines
  \/ CreateRound

SpecHappy == InitHappy /\ [][NextHappy]_vars

\* ------------------------------------- one team of three with failures
InitTeam ==
  /\ InitFor(1..TeamNodes, {TeamNodes}, TeamRounds)
  /\ Limits(TeamFaults, TeamNodes)
  /\ NoLookup
  /\ NoPrecheck
  /\ NoFront

\* a member of a round reports ERROR with a signed RoundError for its round
ReportRoundError(n) ==
  /\ currentRound[n] # 0
  /\ Poll(n, current_ERROR, RoundError(currentRound[n], n))

\* the nodes follow the protocol or report an error of their round
NextTeam ==
  \/ \E n \in nodeMap : Poll(n, NextActivity(activity[n]), NoError)
  \/ \E n \in nodeMap : ReportRoundError(n)
  \/ SchedulerUpdate
  \/ RunGoroutines
  \/ CreateRound

SpecTeam == InitTeam /\ [][NextTeam]_vars

\* --------------------------------- one team of two with repeated failures
InitRace ==
  /\ InitFor(1..RaceNodes, {RaceNodes}, RaceRounds)
  /\ Limits(RaceFaults, RaceNodes)
  /\ NoLookup
  /\ NoPrecheck
  /\ NoFront

SpecRace == InitRace /\ [][Next]_vars

\* -------------------------- a notification channel smaller than the network
InitSend ==
  /\ InitFor(1..SendNodes, 1..SendNodes, SendRounds)
  /\ Limits(0, SendCap)
  /\ NoLookup
  /\ NoPrecheck
  /\ NoFront

SpecSend == InitSend /\ [][NextHappy]_vars

\* -------------------------------------------------- the network at shutdown
\* round creation is stopped: the Stopped flag is set. The polls that have
\* read the flag by then (of the nodes ns) go for the polling lock
Stop(ns) ==
  /\ ~stopped
  /\ stopped' = TRUE
  /\ \A n \in ns : status[n] # Banned \/ PollChecked(n) \in DOMAIN inflight
  /\ Cardinality({n \in ns : PollChecked(n) \notin DOMAIN inflight}) + BagSize(inflight) <= MaxInflight
  /\ inflight' = Overtaken(inflight, ns)
  /\ UNCHANGED <<storageState, sc, spawned, teamSize, roundLimit, nodeMap, halted, activity, status, currentRound,
                 pollingLock, pool, rounds, roundMap, roundTracker, roundUpdates,
                 currentUpdate, updateChan, roundMetrics, roundErrors, deletions, faults,
                 chk, faultLimit, chanCap, pre, frontVars>>

InitShutdown ==
  /\ InitFor(1..StopNodes, 1..StopNodes, StopRounds)
  /\ Limits(StopFaults, StopNodes)
  /\ NoLookup
  /\ NoPrecheck
  /\ NoFront

NextShutdown ==
  \/ Next
  \/ \E ns \in SUBSET nodeMap : Stop(ns)

SpecShutdown == InitShutdown /\ [][NextShutdown]_vars

\* ------------------------------------------------- the versions of a poll
\* the gateway and server versions a poll can carry, by what
\* version.ParseVersion and version.IsCompatible make of them
GatewayVersions == {"empty", "compatible", "incompatible", "unparsable"}

ServerVersions == {"compatible", "incompatible", "unparsable"}

\* checkVersion: TRUE when it returns an error. The gateway version is
\* checked unless it is empty, the server version always
checkVersion(in) ==
  IF in.GatewayVersion # "empty" /\ in.GatewayVersion # "compatible" THEN TRUE
  ELSE in.ServerVersion # "compatible"

\* ------------------------------------------------ the table look-ups alone
InitTable ==
  /\ InitFor({}, {1}, 0)
  /\ Limits(0, 0)
  /\ NoPrecheck
  /\ NoFront
  /\ \E to \in Activities, from \in Activities, phase \in RoundStates :
       chk = [to |-> to, from |-> from, phase |-> phase, done |-> FALSE,
              valid |-> FALSE, needs |-> No, roundOk |-> FALSE]

Lookup ==
  /\ ~chk.done
  /\ chk' = [chk EXCEPT !.done = TRUE,
                        !.valid = IsValidTransition(chk.to, chk.from),
                        !.needs = NeedsRound(chk.to),
                        !.roundOk = IsValidRoundState(chk.to, chk.phase)]
  /\ UNCHANGED <<storageState, sc, spawned, inflight, teamSize, roundLimit, nodeMap, stopped, halted, activity, status, currentRound,
                 pollingLock, pool, rounds, roundMap, roundTracker, roundUpdates,
                 currentUpdate, updateChan, roundMetrics, roundErrors, deletions, faults,
                 faultLimit, chanCap, pre, frontVars>>

NextTable == Lookup

SpecTable == InitTable /\ [][NextTable]_vars


\* ===================================================================
\* Properties
\* ===================================================================
Members(r) == {r.Topology[i] : i \in 1..Len(r.Topology)}

Created == 1..Len(rounds)

LoggedStates(rid) ==
  SelectSeq(roundUpdates, LAMBDA u : u.ID = rid)

\* the phases of the log entries of round rid, in log order
LoggedPhases(rid) ==
  LET log == LoggedStates(rid) IN [i \in 1..Len(log) |-> log[i].State]

\* number of log entries of round rid with the given phase
NumLogged(rid, phase) ==
  Cardinality({i \in DOMAIN roundUpdates :
                 roundUpdates[i].ID = rid /\ roundUpdates[i].State = phase})

\* rounds of node n that have neither completed nor failed
ActiveRoundsOf(n) ==
  {rid \in Created : n \in Members(rounds[rid])
                     /\ rounds[rid].State \notin {states_COMPLETED, states_FAILED}}

\* C1: at every reachable state every node is in the topology of at most
\* one round whose phase is neither COMPLETED nor FAILED
C1_AtMostOneActiveRound ==
  \A n \in nodeMap : Cardinality(ActiveRoundsOf(n)) <= 1

RoundAllows(n, a) ==
  LET rid == currentRound[n]
  IN CASE NeedsRound(a) = Yes -> rid # 0 /\ rounds[rid].State \in RequiredRoundStates(a)
       [] NeedsRound(a) = No -> rid = 0
       [] OTHER -> TRUE

\* the error payload requirement of a poll that reports activity a and
\* read the Stopped flag as stoppedRead: a report of ERROR carries a
\* payload, and the payload verifies unless the flag was read as set
PayloadAllows(n, a, e, stoppedRead) ==
  /\ a = current_ERROR => ~e.Nil
  /\ stoppedRead \/ verifyError(n, e)

\* what a poll of node n can have read of the node's banned flag and of
\* the Stopped flag by the time it commits: the flag as it is, or as it
\* was before it was set
BannedReads(n) == {status[n] = Banned, FALSE}

StoppedReads == {stopped, FALSE}

\* the step changes the recorded activity of node n as the commit of an
\* accepted report does: by a poll with some payload and some reads of the
\* two flags that is accepted, with the notification that poll enqueues
AcceptedCommit(n) ==
  \E e \in ErrorPayloads(n), isBanned \in BannedReads(n), stoppedRead \in StoppedReads :
    LET out == PollOutcome(n, activity'[n], e, isBanned, stoppedRead)
    IN /\ out.update
       /\ updateChan' = updateChan \o out.sent

\* the step enqueues a notification of a report of node n
EnqueuesReport(n) ==
  /\ Len(updateChan') > Len(updateChan)
  /\ updateChan'[Len(updateChan')].Node = n
  /\ updateChan'[Len(updateChan')].ToStatus # Banned

\* C3 (as amended): a node that the poll found not banned and that is at
\* activity a has its reported activity b accepted if and only if the
\* table has a check mark in row b, column a (row = reported destination,
\* column = current activity), the node's round is what b requires and the
\* poll's error payload is acceptable (a report of ERROR carries one, and
\* a payload that is present verifies unless the poll read the Stopped
\* flag as set); a report that is not accepted leaves the recorded
\* activity unchanged and enqueues no update notification: every step that
\* changes a node's activity or enqueues a notification of a report is the
\* commit of an accepted report
C3_AcceptIffDestinationRow ==
  /\ [](\A n \in nodeMap, b \in Activities : \A e \in ErrorPayloads(n) :
          \A isBanned \in BannedReads(n), stoppedRead \in StoppedReads :
            LET out == PollOutcome(n, b, e, isBanned, stoppedRead)
                a == activity[n]
            IN /\ out.update <=> /\ ~isBanned
                                 /\ a \in ValidFrom(b)
                                 /\ RoundAllows(n, b)
                                 /\ PayloadAllows(n, b, e, stoppedRead)
               /\ ~out.update => out.activity = a /\ out.sent = <<>>)
  /\ [][\A n \in nodeMap :
          (activity'[n] # activity[n] \/ EnqueuesReport(n)) => AcceptedCommit(n)]_vars

\* the Stopped flag is set and a member of a round that has not failed
\* has had its report of ERROR accepted with no notification enqueued and
\* the polling lock not taken
C3_Witness ==
  \E n \in nodeMap :
    /\ stopped
    /\ activity[n] = current_ERROR
    /\ currentRound[n] # 0
    /\ rounds[currentRound[n]].State # states_FAILED
    /\ ~pollingLock[n]
    /\ \A i \in DOMAIN updateChan : updateChan[i].Node # n

\* C3 (as stated): the report b of a node at activity a is accepted if and
\* only if the table has a check mark in row a, column b (row = current
\* activity, column = destination); a report that is not accepted leaves
\* the recorded activity unchanged and enqueues no update notification
C3_AcceptIffCurrentRow ==
  \A n \in nodeMap, b \in Activities : \A e \in ErrorPayloads(n) :
    LET out == PollNow(n, b, e)
        a == activity[n]
    IN /\ out.update <=> b \in ValidFrom(a)
       /\ ~out.update => out.activity = a /\ out.sent = <<>>

\* the pairs the table is stated to hold: row x, column y
ListedTransition(x, y) ==
  \/ x = current_WAITING /\ y \in {current_NOT_STARTED, current_COMPLETED, current_ERROR}
  \/ x = current_PRECOMPUTING /\ y = current_WAITING
  \/ x = current_STANDBY /\ y \in {current_WAITING, current_PRECOMPUTING}
  \/ x = current_REALTIME /\ y = current_STANDBY
  \/ x = current_COMPLETED /\ y = current_REALTIME
  \/ x = current_ERROR /\ y \in {current_NOT_STARTED, current_WAITING, current_PRECOMPUTING,
                                 current_STANDBY, current_REALTIME, current_COMPLETED}

\* C4: for every pair (x, y) of the eight activities IsValidTransition(x, y)
\* is true exactly for the listed pairs and false for every other pair
C4_TransitionTable ==
  chk.done => (chk.valid <=> ListedTransition(chk.to, chk.from))

\* the look-up of STANDBY from PRECOMPUTING has been made and answered yes
C4_Witness ==
  /\ chk.done
  /\ chk.to = current_STANDBY
  /\ chk.from = current_PRECOMPUTING
  /\ chk.valid

\* C5: a round of three nodes whose members all reported PRECOMPUTING,
\* STANDBY, REALTIME and COMPLETED without error, ban or timeout has
\* exactly the log entries PRECOMPUTING, STANDBY, QUEUED, REALTIME, COMPLETED
\* in that order, with consecutive update ids
C5_HappyRoundLog ==
  \A rid \in Created :
    LET r == rounds[rid]
        log == LoggedStates(rid)
    IN (Len(r.Topology) = 3 /\ r.State = states_COMPLETED)
         => /\ LoggedPhases(rid) = <<states_PRECOMPUTING, states_STANDBY, states_QUEUED,
                                     states_REALTIME, states_COMPLETED>>
            /\ \A i \in 1..(Len(log) - 1) : log[i + 1].UpdateID = log[i].UpdateID + 1

\* C6: while fewer than the N members of a round have had a STANDBY report
\* processed the round has not moved past PRECOMPUTING and has no QUEUED
\* entry; once the N-th report is processed the round has passed through
\* STANDBY into QUEUED and one QUEUED RoundInfo is in the log; the round is
\* never left in STANDBY
C6_StandbyBarrier ==
  \A rid \in Created :
    LET r == rounds[rid]
        k == Cardinality(r.standbyReports)
        N == Len(r.Topology)
    IN /\ r.State # states_STANDBY
       /\ r.standbyReports \subseteq Members(r)
       /\ r.State = states_PRECOMPUTING => r.readyForTransition = k
       /\ k < N => /\ r.State \in {states_PRECOMPUTING, states_FAILED}
                   /\ r.Stamped \cap {states_STANDBY, states_QUEUED} = {}
                   /\ NumLogged(rid, states_QUEUED) = 0
       /\ k = N => /\ r.State \in {states_QUEUED, states_REALTIME, states_COMPLETED,
                                   states_FAILED}
                   /\ {states_STANDBY, states_QUEUED} \subseteq r.Stamped
                   /\ NumLogged(rid, states_QUEUED) = 1

\* a round of two nodes is QUEUED after both STANDBY reports
C6_Witness ==
  \E rid \in Created :
    /\ Len(rounds[rid].Topology) = 2
    /\ rounds[rid].State = states_QUEUED
    /\ rounds[rid].standbyReports = Members(rounds[rid])

\* C7: a round is COMPLETED only when every member has had a COMPLETED
\* report processed, and it is COMPLETED once every member has; a node
\* whose COMPLETED report was processed no longer points to the round; a
\* COMPLETED round has a COMPLETED RoundInfo as its last log entry, no
\* armed timer and no entry in the active round tracker
C7_CompletedBarrier ==
  \A rid \in Created :
    LET r == rounds[rid]
        log == LoggedPhases(rid)
    IN /\ r.State = states_COMPLETED <=> r.completedReports = Members(r)
       /\ \A n \in r.completedReports : currentRound[n] # rid
       /\ r.State = states_COMPLETED =>
            /\ NumLogged(rid, states_COMPLETED) = 1
            /\ log[Len(log)] = states_COMPLETED
            /\ r.timer = "none"
            /\ rid \notin roundTracker
       /\ r.State # states_COMPLETED => NumLogged(rid, states_COMPLETED) = 0

\* a round of two nodes has completed
C7_Witness ==
  \E rid \in Created :
    /\ Len(rounds[rid].Topology) = 2
    /\ rounds[rid].State = states_COMPLETED
    /\ rounds[rid].completedReports = Members(rounds[rid])

\* C8: whatever the number of ERROR reports for a round, the log holds
\* exactly one FAILED entry for a failed round
C8_OneFailedEntry ==
  \A rid \in Created :
    rounds[rid].State = states_FAILED => NumLogged(rid, states_FAILED) = 1

\* C9: a failed round never has more than one round metric and one round
\* error row, and once it is settled (deleted from the round map, no
\* goroutine of the round still to run) it has exactly one of each,
\* whatever the topology size and the cause of the kill
C9_OneMetricPerFailedRound ==
  \A rid \in Created :
    rounds[rid].State = states_FAILED =>
      /\ roundMetrics[rid] <= 1
      /\ Len(roundErrors[rid]) <= 1
      /\ (rid \notin roundMap /\ \A g \in DOMAIN spawned : g.rid # rid)
           => roundMetrics[rid] = 1 /\ Len(roundErrors[rid]) = 1

\* C10: the record of a failed round is deleted from the round map exactly
\* once: never twice, only when the round has failed and no member points
\* to it any more, and a failed round that no member points to has been
\* deleted; a round that a member still points to is in the map
C10_DeletedOnceWhenCleared ==
  \A rid \in Created :
    LET r == rounds[rid]
        pointing == {n \in Members(r) : currentRound[n] = rid}
    IN /\ deletions[rid] <= 1
       /\ rid \in roundMap <=> deletions[rid] = 0
       /\ deletions[rid] = 1 => r.State = states_FAILED /\ pointing = {}
       /\ (r.State = states_FAILED /\ pointing = {}) => deletions[rid] = 1
       /\ pointing # {} => rid \in roundMap

\* a failed round of two nodes has been deleted after both members cleared it
C10_Witness ==
  \E rid \in Created :
    /\ Len(rounds[rid].Topology) = 2
    /\ rounds[rid].State = states_FAILED
    /\ deletions[rid] = 1
    /\ rid \notin roundMap

\* C11: a round failed by a timer is FAILED through killRound with an error
\* whose source is the scheduler's own identity, the failure is logged and
\* the round is no longer tracked as active; the timer of a phase never
\* fails a round that finished the phase: a round failed by the
\* precomputation timer never reached STANDBY, a round failed by the
\* realtime timer never reached COMPLETED, the armed timer is always the
\* one of the round's current phase, and a COMPLETED round has no armed
\* timer and was not failed by one
C11_TimeoutSafety ==
  \A rid \in Created :
    LET r == rounds[rid]
    IN /\ r.timedOut # "none" =>
            /\ r.State = states_FAILED
            /\ r.Errors # <<>>
            /\ r.Errors[1] = Permissioning
            /\ NumLogged(rid, states_FAILED) >= 1
            /\ rid \notin roundTracker
            /\ r.timer = "none"
       /\ r.timedOut = "precomputation" => states_STANDBY \notin r.Stamped
       /\ r.timedOut = "realtime" =>
            states_QUEUED \in r.Stamped /\ states_COMPLETED \notin r.Stamped
       /\ r.timer = "precomputation" => r.State \in {states_PRECOMPUTING, states_FAILED}
       /\ r.timer = "realtime" => r.State \in {states_QUEUED, states_REALTIME, states_FAILED}
       /\ r.State = states_COMPLETED => r.timer = "none" /\ r.timedOut = "none"

\* a round that finished precomputation in time has been failed by its
\* realtime timer
C11_Witness ==
  \E rid \in Created :
    /\ rounds[rid].timedOut = "realtime"
    /\ rounds[rid].State = states_FAILED
    /\ states_STANDBY \in rounds[rid].Stamped

\* C12: a FAILED round stays FAILED: no step changes its phase, its ready
\* counter, the reports counted for it or the phases it went through, and
\* no step logs an entry for it other than FAILED; when the scheduler takes
\* an update of a node whose current round has failed, whatever activity
\* the update reports, it handles it as ERROR: the node's round is cleared
\* and the round killed again
C12_FailedIsFinal ==
  [][\A rid \in Created :
       rounds[rid].State = states_FAILED =>
         /\ rounds'[rid].State = states_FAILED
         /\ rounds'[rid].readyForTransition = rounds[rid].readyForTransition
         /\ rounds'[rid].standbyReports = rounds[rid].standbyReports
         /\ rounds'[rid].completedReports = rounds[rid].completedReports
         /\ rounds'[rid].Path = rounds[rid].Path
         /\ \A i \in DOMAIN roundUpdates' :
              (i > Len(roundUpdates) /\ roundUpdates'[i].ID = rid)
                 => roundUpdates'[i].State = states_FAILED
         /\ (/\ updateChan # <<>>
             /\ updateChan' = Tail(updateChan)
             /\ Head(updateChan).ToStatus # Banned
             /\ currentRound[Head(updateChan).Node] = rid)
              => /\ currentRound'[Head(updateChan).Node] = 0
                 /\ Len(roundUpdates') = Len(roundUpdates) + 1
                 /\ roundUpdates'[Len(roundUpdates')].ID = rid
    ]_vars

\* a member's STANDBY update was handled as ERROR: its recorded activity is
\* STANDBY, its round pointer is cleared, its report was not counted and the
\* failed round holds the error of an update that carried none
C12_Witness ==
  \E rid \in Created : \E n \in Members(rounds[rid]) :
    /\ rounds[rid].State = states_FAILED
    /\ activity[n] = current_STANDBY
    /\ currentRound[n] = 0
    /\ n \notin rounds[rid].standbyReports
    /\ \E i \in DOMAIN rounds[rid].Errors : rounds[rid].Errors[i] = -1

\* C13: the phases a round has gone through start at PENDING, end at its
\* current phase and strictly increase in the order PENDING, PRECOMPUTING,
\* STANDBY, QUEUED, REALTIME, COMPLETED, FAILED; PRECOMPUTING is entered
\* from PENDING, STANDBY from PRECOMPUTING, QUEUED only from STANDBY,
\* REALTIME only from QUEUED and COMPLETED only from REALTIME; FAILED is
\* entered from any of them
C13_PhaseOrder ==
  \A rid \in Created :
    LET p == rounds[rid].Path
    IN /\ p[1] = states_PENDING
       /\ p[Len(p)] = rounds[rid].State
       /\ \A i \in 2..Len(p) :
            /\ p[i] > p[i - 1]
            /\ p[i] = states_PRECOMPUTING => p[i - 1] = states_PENDING
            /\ p[i] = states_STANDBY => p[i - 1] = states_PRECOMPUTING
            /\ p[i] = states_QUEUED => p[i - 1] = states_STANDBY
            /\ p[i] = states_REALTIME => p[i - 1] = states_QUEUED
            /\ p[i] = states_COMPLETED => p[i - 1] = states_REALTIME

\* a round has gone through every phase up to COMPLETED
C13_Witness ==
  \E rid \in Created :
    rounds[rid].Path = <<states_PENDING, states_PRECOMPUTING, states_STANDBY,
                         states_QUEUED, states_REALTIME, states_COMPLETED>>

\* C14: a round of three nodes that a member's ERROR report has failed is
\* FAILED, has a FAILED log entry, is no longer the current round of any of
\* its three members, and, once the goroutine that persists it has run, has
\* exactly one round error row, whose source is the reporter
C14_ErrorClearsTeam ==
  \A rid \in Created :
    LET r == rounds[rid]
    IN (/\ Len(r.Topology) = 3
        /\ r.Errors # <<>>
        /\ r.Errors[1] \in Members(r))
         => /\ r.State = states_FAILED
            /\ NumLogged(rid, states_FAILED) >= 1
            /\ \A n \in Members(r) : currentRound[n] # rid
            /\ (\A g \in DOMAIN spawned : g.rid # rid) => roundErrors[rid] = <<r.Errors[1]>>

\* the ban of node n has been handled by the scheduler
BanHandled(n) ==
  /\ status[n] = Banned
  /\ \A i \in DOMAIN updateChan : updateChan[i].Node # n

\* C15: once the scheduler has handled the ban of a node, the node has no
\* current round, every round it was a member of and had not completed is
\* FAILED, and the node is not in the waiting pool and is never drafted
\* again
C15_BanClearsAndExcludes ==
  \A n \in nodeMap :
    BanHandled(n) =>
      /\ currentRound[n] = 0
      /\ n \notin pool
      /\ \A rid \in Created :
           (n \in Members(rounds[rid]) /\ n \notin rounds[rid].completedReports)
             => rounds[rid].State = states_FAILED

\* node n has a failed round and no poll in flight
HoldsFailedRound(n) ==
  /\ status[n] = Active
  /\ currentRound[n] # 0
  /\ rounds[currentRound[n]].State = states_FAILED
  /\ ~pollingLock[n]

\* C16: once a round has failed the network is never stuck: the scheduler
\* has not stopped consuming updates, and every non-banned member that
\* still has the failed round as its current round can have a poll
\* accepted, so that by polling it gets its round cleared and returns to
\* WAITING and the waiting pool
C16_FailuresNeverDeadlock ==
  (\E rid \in Created : rounds[rid].State = states_FAILED) =>
    /\ ~halted
    /\ \A n \in nodeMap :
         HoldsFailedRound(n) =>
           \E a \in Activities : \E e \in ErrorPayloads(n) : PollNow(n, a, e).update

\* C17: a polling lock that is held is on its way to being released: the
\* poll that took it has enqueued an update notification for the node and
\* the scheduler, which releases the lock when it has handled the
\* notification, is still consuming; every other exit of the poll handler
\* (no transition, failed error verification, failed send) has released the
\* lock itself, so that no lock stays held for ever
C17_LockAlwaysReleased ==
  \A n \in nodeMap :
    pollingLock[n] =>
      /\ ~halted
      /\ \E i \in DOMAIN updateChan : updateChan[i].Node = n

\* the update notifications of node n that are in flight
InFlight(n, chan) == {i \in DOMAIN chan : chan[i].Node = n}

\* C18: a node has at most one update notification in flight, and while it
\* has one no step commits a change of its activity or enqueues a second
\* notification for it
C18_OneTransitionInFlight ==
  [][\A n \in nodeMap :
       /\ Cardinality(InFlight(n, updateChan)) <= 1
       /\ InFlight(n, updateChan) # {} =>
            /\ activity'[n] = activity[n]
            /\ Cardinality(InFlight(n, updateChan')) <= 1
    ]_vars

\* the error payload e of a poll of node n names a round that is not the
\* node's current round, or its signature does not verify
BadErrorPayload(n, e) ==
  /\ ~e.Nil
  /\ \/ e.Id # 0 /\ currentRound[n] # e.Id
     \/ ~e.SigOK

\* C20: a poll whose error payload names a round that is not the node's
\* current round, or whose signature does not verify, is rejected: the
\* node's activity is unchanged, no update notification is enqueued and the
\* polling lock is as it was before the poll
C20_BadErrorRejected ==
  \A n \in nodeMap, a \in Activities : \A e \in ErrorPayloads(n) :
    LET out == PollNow(n, a, e)
    IN BadErrorPayload(n, e) =>
         /\ ~out.update
         /\ out.activity = activity[n]
         /\ out.sent = <<>>
         /\ out.locked = pollingLock[n]

\* ===================================================== the NDF and its hash
\* a network address: host and port. Host 0 stands for the placeholder
\* the gateway sends to have its host replaced by the node's host
gatewayReplaceIpPlaceholder == 0

Address(h, p) == [host |-> h, port |-> p]

\* an address net.SplitHostPort cannot parse, and the empty address
MalformedAddress == [host |-> -1, port |-> 0]

EmptyAddress == [host |-> -2, port |-> 0]

\* the address left in a stripped NDF entry
NoAddress == [host |-> 0, port |-> 0]

\* the port every server listens on
ServerPort == 1

\* id.SetType(id.Gateway): the gateway id derived from a node id
GatewayId(n) == n + NdfNodes

\* connectivity states of a node
node_PortUnknown == "PortUnknown"
node_PortVerifying == "PortVerifying"
node_PortSuccessful == "PortSuccessful"
node_NodePortFailed == "NodePortFailed"
node_GatewayPortFailed == "GatewayPortFailed"
node_PortFailed == "PortFailed"

FailedPorts == {node_NodePortFailed, node_GatewayPortFailed, node_PortFailed}

\* NetworkDefinition.Marshal: the node entries, then the gateway entries,
\* three numbers each, after the number of nodes
RECURSIVE MarshalEntries(_)
MarshalEntries(es) ==
  IF es = <<>> THEN <<>>
  ELSE <<Head(es).ID, Head(es).Address.host, Head(es).Address.port>> \o MarshalEntries(Tail(es))

Marshal(def) == <<Len(def.Nodes)>> \o MarshalEntries(def.Nodes) \o MarshalEntries(def.Gateways)

\* ndf.DecodeNDF: the definition read back from its bytes
Unmarshal(b) ==
  LET k == b[1]
      total == (Len(b) - 1) \div 3
      Entry(i) == [ID |-> b[3 * i - 1], Address |-> Address(b[3 * i], b[3 * i + 1])]
  IN [Nodes |-> [i \in 1..k |-> Entry(i)],
      Gateways |-> [i \in 1..(total - k) |-> Entry(k + i)]]

\* the hash of NDF bytes: a digest in which every byte is mixed with its
\* position
HashMix == 7

Hash(b) == [i \in 1..Len(b) |-> b[i] + HashMix * i]

\* NetworkDefinition.StripNdf: the node entries keep their id only
StripNdf(def) ==
  [def EXCEPT !.Nodes = [i \in 1..Len(def.Nodes) |-> [ID |-> def.Nodes[i].ID, Address |-> NoAddress]]]

\* signature.Sign: the signature made over the bytes with the
\* permissioning key
Sign(b) == [Ndf |-> b, Signature |-> [signer |-> Permissioning, over |-> Hash(b)]]

\* dataStructures.Ndf.Update: the decoded definition, the signed message
\* and the hash of its bytes
NdfUpdate(msg) == [f |-> Unmarshal(msg.Ndf), pb |-> msg, hash |-> Hash(msg.Ndf)]

\* dataStructures.Ndf.CompareHash
CompareHash(file, h) == file.hash = h

\* the entries of a list that are not at the positions of pruned nodes
RECURSIVE Unpruned(_, _, _)
Unpruned(nodes, list, pruned) ==
  IF nodes = <<>> THEN <<>>
  ELSE IF Head(nodes).ID \in pruned THEN Unpruned(Tail(nodes), Tail(list), pruned)
  ELSE <<Head(list)>> \o Unpruned(Tail(nodes), Tail(list), pruned)

\* the definition that is advertised: the new definition without the
\* pruned nodes and their gateways
Advertise(newNdf, pruned) ==
  [Nodes |-> Unpruned(newNdf.Nodes, newNdf.Nodes, pruned),
   Gateways |-> Unpruned(newNdf.Nodes, newNdf.Gateways, pruned)]

\* NetworkState.UpdateNdf up to the first install: the new definition
\* becomes the unpruned NDF, the advertised full NDF and its stripped form
\* are marshalled and signed, and the full NDF is installed. When signing
\* fails nothing is installed. The partial message is still to be installed
UpdateNdf(S, pruned, newNdf, signOk) ==
  [err |-> ~signOk,
   S |-> IF signOk
           THEN [S EXCEPT !.unprunedNdf = newNdf,
                          !.fullNdf = NdfUpdate(Sign(Marshal(Advertise(newNdf, pruned))))]
         ELSE [S EXCEPT !.unprunedNdf = newNdf],
   partialNdfMsg |-> Sign(Marshal(StripNdf(Advertise(newNdf, pruned))))]

\* the last statement of UpdateNdf: the partial NDF is installed
UpdatePartialNdf(S, partialNdfMsg) == [S EXCEPT !.partialNdf = NdfUpdate(partialNdfMsg)]

\* updateNdfNodeAddr / updateNdfGatewayAddr: the first entry with the id
\* gets the address; an error when no entry has the id
IndexOf(list, i) == {k \in 1..Len(list) : list[k].ID = i}

updateNdfAddr(i, requiredAddr, list) ==
  IF IndexOf(list, i) = {} THEN [err |-> TRUE, list |-> list]
  ELSE LET k == CHOOSE k \in IndexOf(list, i) : \A j \in IndexOf(list, i) : k <= j
       IN [err |-> FALSE, list |-> [list EXCEPT ![k].Address = requiredAddr]]

updateNdfNodeAddr(nid, requiredAddr, def) ==
  LET u == updateNdfAddr(nid, requiredAddr, def.Nodes)
  IN [err |-> u.err, ndf |-> [def EXCEPT !.Nodes = u.list]]

updateNdfGatewayAddr(nid, requiredAddr, def) ==
  LET u == updateNdfAddr(GatewayId(nid), requiredAddr, def.Gateways)
  IN [err |-> u.err, ndf |-> [def EXCEPT !.Gateways = u.list]]

\* updateGatewayAdvertisedAddress: the placeholder host is replaced by the
\* node's host, the gateway's port is kept; an address that cannot be
\* split into host and port is an error (the empty node address included)
updateGatewayAdvertisedAddress(gatewayAddress, nodeAddress) ==
  IF gatewayAddress = EmptyAddress THEN [err |-> FALSE, addr |-> gatewayAddress]
  ELSE IF gatewayAddress = MalformedAddress THEN [err |-> TRUE, addr |-> EmptyAddress]
  ELSE IF gatewayAddress.host = gatewayReplaceIpPlaceholder
    THEN IF nodeAddress \in {MalformedAddress, EmptyAddress}
           THEN [err |-> TRUE, addr |-> EmptyAddress]
         ELSE [err |-> FALSE, addr |-> Address(nodeAddress.host, gatewayAddress.port)]
  ELSE [err |-> FALSE, addr |-> gatewayAddress]

\* checkIPAddresses, statement by statement.
\* n.UpdateNodeAddresses and n.UpdateGatewayAddresses: the address is
\* stored in the node record; the result is whether it was another one
UpdateNodeAddresses(rec, addr) ==
  [update |-> rec.nodeAddress # addr, rec |-> [rec EXCEPT !.nodeAddress = addr]]

UpdateGatewayAddresses(rec, addr) ==
  [update |-> rec.gatewayAddress # addr, rec |-> [rec EXCEPT !.gatewayAddress = addr]]

\* updateNdfNodeAddr on the definition that m.State.GetFullNdf().Get()
\* returned, for the poll g of node n that reports a new server address:
\* the definition as the call leaves it, and whether it failed
ipNodeEntry(n, g, def) ==
  IF g.nodeUpdate THEN updateNdfNodeAddr(n, g.nodeAddress, def)
  ELSE [err |-> FALSE, ndf |-> def]

\* =========================================================== the front end
\* the nodes with an entry in the advertised full NDF
Advertised(S) == {S.fullNdf.f.Nodes[i].ID : i \in 1..Len(S.fullNdf.f.Nodes)}

\* what the connectivity probe of a poll can find
ProbeResult(nodePing, gwPing) ==
  IF nodePing /\ gwPing THEN node_PortSuccessful
  ELSE IF ~nodePing /\ gwPing THEN node_NodePortFailed
  ELSE IF nodePing /\ ~gwPing THEN node_GatewayPortFailed
  ELSE node_PortFailed

\* the probes in flight are a bag of node ids: a probe is started, and a
\* probe finishes
AddProbe(b, n) ==
  IF n \in DOMAIN b THEN [b EXCEPT ![n] = @ + 1]
  ELSE [x \in DOMAIN b \cup {n} |-> IF x = n THEN 1 ELSE b[x]]

RemoveProbe(b, n) ==
  IF b[n] = 1 THEN [x \in DOMAIN b \ {n} |-> b[x]] ELSE [b EXCEPT ![n] = @ - 1]

\* the poll count at which a failed node is probed again
RetryModulus == 211
RetryRemainder == 13

\* checkConnectivity at its switch, for the connectivity c it read and the
\* reported activity a: whether the poll continues, whether it returns an
\* error, whether it starts a probe and whether it goes on to the forced
\* retry of a failed node. No statement of the switch sets the
\* connectivity: the probe does, when it finishes, and the forced retry
checkConnectivity(c, a) ==
  LET result(cont, err, spawn, failed) ==
        [continuePoll |-> cont, err |-> err, spawn |-> spawn, failed |-> failed]
  IN IF c = node_PortUnknown THEN result(a = current_ERROR, FALSE, TRUE, FALSE)
     ELSE IF c = node_PortVerifying THEN result(a = current_ERROR, FALSE, FALSE, FALSE)
     ELSE IF c = node_PortSuccessful THEN result(TRUE, FALSE, FALSE, FALSE)
     ELSE result(FALSE, TRUE, FALSE, TRUE)

\* n.GetNumPolls()%211 == 13: the test of the forced retry on the poll
\* count that was read
retryDue(numPolls) == numPolls % RetryModulus = RetryRemainder

\* RegistrationImpl.Poll is taken statement by statement where a statement
\* reads or writes what other handlers, the probes or the metric tracker
\* read or write, and where the handler waits for a lock. Between two steps
\* of a poll the other polls, the probes, the tracker and the scheduler run:
\*   arrive (lines 196-229): the checks of the caller and of the node, the
\*     poll counter;
\*   node address (lines 509-515), gateway address (line 516, and the
\*     versions, lines 239-243, when no address changed);
\*   lock (lines 526-535): m.NDFLock is taken, the connectivity is reset
\*     and the node's entry of the NDF is rewritten; gateway entry (lines
\*     537-543);
\*   publish (line 545) in the two installs of UpdateNdf, the second with
\*     the release of m.NDFLock (line 550) and the versions (239-243);
\*   compare (line 246), full (line 250), partial (line 251): the reads of
\*     the NDF for the response;
\*   serve (lines 255-277, 568-609): the round updates, the read of the
\*     connectivity at checkConnectivity's switch with the start of the
\*     probe, and the checks of the report;
\*   retry count (lines 614, 624, 634): for a failed node, the read of the
\*     poll counter; retry (lines 615, 625, 635): the connectivity is set
\*     to unknown;
\*   stopped (line 283): the read of the Stopped flag;
\*   update (lines 290-319): the polling lock and the commit of the report.
\* A field of the message is drawn at the step that reads it first.

\* a poll of node n between two of its steps; pruned is whether the node
\* was pruned from the advertised NDF when the poll arrived
PollAt(n, pc, pruned) == [node |-> n, pc |-> pc, pruned |-> pruned]

\* the checks before the poll is counted: the error the poll returns. A
\* poll without a message is turned away before anything else is looked at
pollArrived(msgNil, ready, n, auth) ==
  IF msgNil THEN "NilMessage"
  ELSE IF ~ready THEN "NdfNotReady"
  ELSE IF ~auth.IsAuthenticated \/ auth.IsDynamicHost THEN "AuthError"
  ELSE IF n \notin DOMAIN nodeRec THEN "UnknownNode"
  ELSE IF status[n] = Banned THEN "Banned"
  ELSE "none"

\* msg.Full of a poll: nil, or the hash the node holds
NilFull == [Nil |-> TRUE]

FullOf(h) == [Nil |-> FALSE, Hash |-> h]

\* m.State.GetFullNdf().CompareHash(msg.Full.Hash): msg.Full.Hash of a
\* message without Full is a nil dereference, the handler panics
pollCompared(S, full) ==
  [panic |-> full.Nil, isSame |-> ~full.Nil /\ CompareHash(S.fullNdf, full.Hash)]

\* lines 255-277: a failure to fetch the round updates ends the poll; then
\* the connectivity and the report decide whether the poll goes on
pollServed(msg, updatesOk, cc) ==
  IF ~updatesOk THEN "GetUpdates"
  ELSE IF cc.err THEN "PortFailed"
  ELSE IF ~cc.continuePoll THEN "NoContinue"
  ELSE IF msg.Activity = current_ERROR /\ msg.Error.Nil THEN "MalformedError"
  ELSE IF msg.Activity = current_NOT_STARTED THEN "NotStarted"
  ELSE "none"

\* the scheduler's side of the state, the polls in flight apart, is left
\* alone
NetUnchanged ==
  UNCHANGED <<storageState, sc, spawned, teamSize, roundLimit, nodeMap, stopped, halted, status, currentRound, pool,
              rounds, roundMap, roundTracker, roundUpdates, currentUpdate, roundMetrics,
              roundErrors, deletions, faults, chk, faultLimit, chanCap, pre>>

\* what no step of a poll's front changes
FrontUnchanged ==
  /\ NetUnchanged
  /\ UNCHANGED <<activity, updateChan, pollingLock>>
  /\ UNCHANGED <<NdfReady, nodeMetrics, RegParams, compose, tracker, pruneList>>

\* the record of a step that no check of the results looks at
PollStep == [op |-> "Step"]

\* the poll g is over, or goes on as the poll h
GoesOn(g, h) == inflight' = Spawn(Finish(inflight, g), h)

IsOver(g) == inflight' = Finish(inflight, g)

\* a poll of node n arrives, with a message or without one: the checks,
\* and the poll is counted
PollArrive(n, auth, msgNil) ==
  /\ ~crashed
  /\ BagSize(inflight) < RegParams.maxInflight
  /\ n \in DOMAIN nodeRec => nodeRec[n].numPolls < RegParams.maxPolls
  /\ \E e \in {pollArrived(msgNil, NdfReady, n, auth)} :
       /\ nodeRec' = IF e = "none" THEN [nodeRec EXCEPT ![n].numPolls = @ + 1] ELSE nodeRec
       /\ inflight' = IF e = "none"
                        THEN Spawn(inflight,
                                   PollAt(n, "arrived", n \in pruneList /\ n \notin Advertised(ndfState)))
                      ELSE inflight
       /\ last' = [op |-> "Arrive", node |-> n, err |-> e]
  /\ FrontUnchanged
  /\ UNCHANGED <<ndfState, NDFLock, probes, crashed>>

\* checkIPAddresses begins: the gateway's address is completed and the
\* server address the poll came from is stored
PollNodeAddress(g, gatewayAddress, nodeAddress) ==
  /\ ~crashed
  /\ g \in DOMAIN inflight
  /\ g.pc = "arrived"
  /\ \E gw \in {updateGatewayAdvertisedAddress(gatewayAddress, nodeAddress)} :
       \E un \in {UpdateNodeAddresses(nodeRec[g.node], nodeAddress)} :
         /\ nodeRec' = IF gw.err THEN nodeRec ELSE [nodeRec EXCEPT ![g.node] = un.rec]
         /\ inflight' = IF gw.err THEN Finish(inflight, g)
                        ELSE Spawn(Finish(inflight, g),
                                   [node |-> g.node, pc |-> "nodeAddress", pruned |-> g.pruned,
                                    nodeAddress |-> nodeAddress, gatewayAddress |-> gw.addr,
                                    nodeUpdate |-> un.update,
                                    was |-> [nodeAddress |-> nodeRec[g.node].nodeAddress]])
         /\ last' = IF gw.err
                      THEN [op |-> "NodeAddress", g |-> g, node |-> g.node, err |-> "IPAddress",
                            returned |-> TRUE, was |-> nodeRec[g.node]]
                    ELSE PollStep
  /\ FrontUnchanged
  /\ UNCHANGED <<ndfState, NDFLock, probes, crashed>>

\* the gateway's address is stored. When no address changed
\* checkIPAddresses returns and the versions are checked
PollGatewayAddress(g, versions) ==
  /\ ~crashed
  /\ g \in DOMAIN inflight
  /\ g.pc = "nodeAddress"
  /\ \E ug \in {UpdateGatewayAddresses(nodeRec[g.node], g.gatewayAddress)} :
       /\ nodeRec' = [nodeRec EXCEPT ![g.node] = ug.rec]
       /\ IF g.nodeUpdate \/ ug.update
            THEN /\ GoesOn(g, [node |-> g.node, pc |-> "lock", pruned |-> g.pruned,
                               nodeAddress |-> g.nodeAddress, gatewayAddress |-> g.gatewayAddress,
                               nodeUpdate |-> g.nodeUpdate, gatewayUpdate |-> ug.update,
                               was |-> [nodeAddress |-> g.was.nodeAddress,
                                        gatewayAddress |-> nodeRec[g.node].gatewayAddress]])
                 /\ last' = PollStep
          ELSE /\ IF checkVersion(versions) THEN IsOver(g)
                  ELSE GoesOn(g, PollAt(g.node, "checked", g.pruned))
               /\ last' = IF checkVersion(versions)
                            THEN [op |-> "GatewayAddress", g |-> g, node |-> g.node,
                                  err |-> "VersionIncompatible"]
                          ELSE PollStep
  /\ FrontUnchanged
  /\ UNCHANGED <<ndfState, NDFLock, probes, crashed>>

\* what the poll replaced in the node record, and the hash of the full NDF
\* and the node's connectivity when it took the lock
WasWith(was, h, c) ==
  [nodeAddress |-> was.nodeAddress, gatewayAddress |-> was.gatewayAddress, hash |-> h,
   connectivity |-> c]

\* the poll g has rewritten the entries: def is to be published
PollPublishing(g, was, def) ==
  [node |-> g.node, pc |-> "publish", pruned |-> g.pruned, nodeAddress |-> g.nodeAddress,
   gatewayAddress |-> g.gatewayAddress, was |-> was, currentNDF |-> def]

\* the poll has m.NDFLock (lines 526-535): for a new server address the
\* connectivity is reset and the node's entry of the definition
\* GetFullNdf().Get() returns is rewritten where it is. An entry that is
\* not found ends the poll with the lock released
PollLockNdf(g) ==
  /\ ~crashed
  /\ g \in DOMAIN inflight
  /\ g.pc = "lock"
  /\ ~NDFLock
  /\ \E u \in {ipNodeEntry(g.node, g, ndfState.fullNdf.f)} :
       /\ nodeRec' = IF g.nodeUpdate THEN [nodeRec EXCEPT ![g.node].connectivity = node_PortUnknown]
                     ELSE nodeRec
       /\ ndfState' = [ndfState EXCEPT !.fullNdf.f = u.ndf]
       /\ NDFLock' = ~u.err
       /\ IF u.err THEN IsOver(g)
          ELSE IF g.gatewayUpdate
            THEN GoesOn(g, [node |-> g.node, pc |-> "gatewayEntry", pruned |-> g.pruned,
                            nodeAddress |-> g.nodeAddress, gatewayAddress |-> g.gatewayAddress,
                            was |-> WasWith(g.was, ndfState.fullNdf.hash, nodeRec[g.node].connectivity),
                            currentNDF |-> u.ndf, detached |-> FALSE])
          ELSE GoesOn(g, PollPublishing(g, WasWith(g.was, ndfState.fullNdf.hash, nodeRec[g.node].connectivity), u.ndf))
       /\ last' = [op |-> "Lock", g |-> g, node |-> g.node,
                   err |-> IF u.err THEN "IPAddress" ELSE "none", returned |-> u.err,
                   was |-> WasWith(g.was, ndfState.fullNdf.hash, nodeRec[g.node].connectivity)]
  /\ FrontUnchanged
  /\ UNCHANGED <<probes, crashed>>

\* lines 537-543: the gateway's entry of the definition is rewritten where
\* it is. The definition is the one GetFullNdf().Get() returned: it is no
\* longer the installed one when the tracker has installed another since
PollGatewayEntry(g) ==
  /\ ~crashed
  /\ g \in DOMAIN inflight
  /\ g.pc = "gatewayEntry"
  /\ \E u \in {updateNdfGatewayAddr(g.node, g.gatewayAddress, g.currentNDF)} :
       /\ ndfState' = IF g.detached THEN ndfState ELSE [ndfState EXCEPT !.fullNdf.f = u.ndf]
       /\ NDFLock' = ~u.err
       /\ IF u.err THEN IsOver(g)
          ELSE GoesOn(g, PollPublishing(g, g.was, u.ndf))
       /\ last' = [op |-> "GatewayEntry", g |-> g, node |-> g.node,
                   err |-> IF u.err THEN "IPAddress" ELSE "none", returned |-> u.err,
                   was |-> g.was]
  /\ FrontUnchanged
  /\ UNCHANGED <<nodeRec, probes, crashed>>

\* m.State.UpdateNdf(currentNDF) up to its first install. A failure ends
\* the poll with the lock released
PollPublish(g) ==
  /\ ~crashed
  /\ g \in DOMAIN inflight
  /\ g.pc = "publish"
  /\ \E up \in {UpdateNdf(ndfState, pruneList, g.currentNDF, RegParams.signOk)} :
       /\ ndfState' = up.S
       /\ NDFLock' = ~up.err
       /\ IF up.err THEN IsOver(g)
          ELSE GoesOn(g, [node |-> g.node, pc |-> "partial", pruned |-> g.pruned,
                          nodeAddress |-> g.nodeAddress, gatewayAddress |-> g.gatewayAddress,
                          was |-> g.was, partialNdfMsg |-> up.partialNdfMsg])
       /\ last' = [op |-> "Publish", g |-> g, node |-> g.node,
                   err |-> IF up.err THEN "IPAddress" ELSE "none", returned |-> up.err,
                   was |-> g.was]
  /\ FrontUnchanged
  /\ UNCHANGED <<nodeRec, probes, crashed>>

\* the second install of UpdateNdf; m.NDFLock is released, checkIPAddresses
\* returns and the versions are checked
PollPublishPartial(g, versions) ==
  /\ ~crashed
  /\ g \in DOMAIN inflight
  /\ g.pc = "partial"
  /\ ndfState' = UpdatePartialNdf(ndfState, g.partialNdfMsg)
  /\ NDFLock' = FALSE
  /\ IF checkVersion(versions) THEN IsOver(g) ELSE GoesOn(g, PollAt(g.node, "checked", g.pruned))
  /\ last' = [op |-> "Unlock", g |-> g, node |-> g.node,
              err |-> IF checkVersion(versions) THEN "VersionIncompatible" ELSE "none",
              returned |-> TRUE, was |-> g.was]
  /\ FrontUnchanged
  /\ UNCHANGED <<nodeRec, probes, crashed>>

\* the hash the poll carries is compared with the hash of the full NDF
PollCompare(g, full) ==
  /\ ~crashed
  /\ g \in DOMAIN inflight
  /\ g.pc = "checked"
  /\ \E c \in {pollCompared(ndfState, full)} :
       /\ crashed' = c.panic
       /\ IF c.panic THEN IsOver(g)
          ELSE IF c.isSame
            THEN GoesOn(g, [node |-> g.node, pc |-> "response", pruned |-> g.pruned,
                            FullNDF |-> <<>>, PartialNDF |-> <<>>])
          ELSE GoesOn(g, PollAt(g.node, "compared", g.pruned))
       /\ last' = [op |-> "Compare", g |-> g, node |-> g.node, Full |-> full,
                   isSame |-> c.isSame, err |-> IF c.panic THEN "Panic" ELSE "none"]
  /\ FrontUnchanged
  /\ UNCHANGED <<nodeRec, ndfState, NDFLock, probes>>

\* response.FullNDF = m.State.GetFullNdf().GetPb()
PollFullNdf(g) ==
  /\ ~crashed
  /\ g \in DOMAIN inflight
  /\ g.pc = "compared"
  /\ GoesOn(g, [node |-> g.node, pc |-> "full", pruned |-> g.pruned,
                FullNDF |-> <<ndfState.fullNdf.pb>>])
  /\ last' = [op |-> "Full", g |-> g, node |-> g.node, FullNDF |-> <<ndfState.fullNdf.pb>>]
  /\ FrontUnchanged
  /\ UNCHANGED <<nodeRec, ndfState, NDFLock, probes, crashed>>

\* response.PartialNDF = m.State.GetPartialNdf().GetPb()
PollPartialNdf(g) ==
  /\ ~crashed
  /\ g \in DOMAIN inflight
  /\ g.pc = "full"
  /\ GoesOn(g, [node |-> g.node, pc |-> "response", pruned |-> g.pruned,
                FullNDF |-> g.FullNDF, PartialNDF |-> <<ndfState.partialNdf.pb>>])
  /\ last' = [op |-> "Partial", g |-> g, node |-> g.node,
              FullNDF |-> g.FullNDF, PartialNDF |-> <<ndfState.partialNdf.pb>>]
  /\ FrontUnchanged
  /\ UNCHANGED <<nodeRec, ndfState, NDFLock, probes, crashed>>

\* the poll g goes on with the round updates, the connectivity and its
\* report. What the step reads of the message are the activity and the
\* error payload; updatesOk is whether the round updates could be fetched.
\* The poll of a node whose ports it read as failed goes on to the forced
\* retry and returns the ports error after it
PollServe(g, msg, updatesOk) ==
  /\ ~crashed
  /\ g \in DOMAIN inflight
  /\ g.pc = "response"
  /\ \E cc \in {checkConnectivity(nodeRec[g.node].connectivity, msg.Activity)} :
       \E e \in {pollServed(msg, updatesOk, cc)} :
         /\ probes' = IF updatesOk /\ cc.spawn THEN AddProbe(probes, g.node) ELSE probes
         /\ IF e = "none"
              THEN GoesOn(g, [node |-> g.node, pc |-> "report",
                              Activity |-> msg.Activity, Error |-> msg.Error])
            ELSE IF e = "PortFailed"
              THEN GoesOn(g, [node |-> g.node, pc |-> "failed"])
            ELSE IsOver(g)
         /\ last' = [op |-> "Poll", g |-> g, node |-> g.node, msg |-> msg, err |-> e,
                     FullNDF |-> g.FullNDF, PartialNDF |-> g.PartialNDF]
  /\ FrontUnchanged
  /\ UNCHANGED <<nodeRec, ndfState, NDFLock, crashed>>

\* the poll g of a node whose ports it read as failed reads the node's
\* poll counter: on the count of the forced retry it goes on to set the
\* connectivity, on any other it returns the ports error
PollRetryCount(g) ==
  /\ ~crashed
  /\ g \in DOMAIN inflight
  /\ g.pc = "failed"
  /\ IF retryDue(nodeRec[g.node].numPolls)
       THEN GoesOn(g, [node |-> g.node, pc |-> "retry"])
     ELSE IsOver(g)
  /\ last' = [op |-> "RetryCount", g |-> g, node |-> g.node, err |-> "PortFailed",
              count |-> nodeRec[g.node].numPolls,
              returned |-> ~retryDue(nodeRec[g.node].numPolls)]
  /\ FrontUnchanged
  /\ UNCHANGED <<nodeRec, ndfState, NDFLock, probes, crashed>>

\* n.SetConnectivity(node.PortUnknown) of the forced retry, whatever the
\* connectivity is by now; the poll returns the ports error
PollRetry(g) ==
  /\ ~crashed
  /\ g \in DOMAIN inflight
  /\ g.pc = "retry"
  /\ nodeRec' = [nodeRec EXCEPT ![g.node].connectivity = node_PortUnknown]
  /\ IsOver(g)
  /\ last' = [op |-> "Retry", g |-> g, node |-> g.node, err |-> "PortFailed", returned |-> TRUE]
  /\ FrontUnchanged
  /\ UNCHANGED <<ndfState, NDFLock, probes, crashed>>

\* the poll g, whose report is to be committed, reads the Stopped flag
PollStopped(g) ==
  /\ ~crashed
  /\ g \in DOMAIN inflight
  /\ g.pc = "report"
  /\ GoesOn(g, [node |-> g.node, pc |-> "served", stopped |-> stopped,
                Activity |-> g.Activity, Error |-> g.Error])
  /\ last' = [op |-> "Stopped", g |-> g, node |-> g.node, stopped |-> stopped]
  /\ FrontUnchanged
  /\ UNCHANGED <<nodeRec, ndfState, NDFLock, probes, crashed>>

\* the poll g has the polling lock, or goes on without it: its last step
PollUpdate(g) ==
  /\ ~crashed
  /\ g \in DOMAIN inflight
  /\ g.pc = "served"
  /\ "Activity" \in DOMAIN g
  /\ g.stopped \/ ~pollingLock[g.node]
  /\ \E out \in {PollOutcome(g.node, g.Activity, g.Error, FALSE, g.stopped)} :
       /\ activity' = [activity EXCEPT ![g.node] = out.activity]
       /\ updateChan' = updateChan \o out.sent
       /\ pollingLock' = [pollingLock EXCEPT ![g.node] = out.locked]
       /\ last' = [op |-> "Update", node |-> g.node, Activity |-> g.Activity, update |-> out.update]
  /\ inflight' = Finish(inflight, g)
  /\ NetUnchanged
  /\ UNCHANGED <<NdfReady, nodeRec, ndfState, pruneList, NDFLock, probes, nodeMetrics, crashed,
                 RegParams, compose, tracker>>

\* RegistrationImpl.PollNdf is taken in two steps, one for each read of the
\* NDF: the comparison of the caller's hash (lines 326-335, 345), and
\* Get().Marshal() (lines 341, 351)

\* a PollNdf that serves every caller from the full NDF
PollNdfFileFull(S, auth) == S.fullNdf

\* the NDF a caller is served from: the partial NDF for a caller that is
\* unauthenticated or a dynamic host, the full NDF for any other
PollNdfFile(S, auth) ==
  IF ~auth.IsAuthenticated \/ auth.IsDynamicHost THEN S.partialNdf ELSE S.fullNdf

\* the caller of PollNdf between the two reads
PollNdfCaller(auth) == [node |-> 0, pc |-> "pollNdf", auth |-> auth]

\* the first step: the error while the NDF is not ready, nothing for the
\* hash of the NDF the caller is served from
PollNdfCompare(theirNdfHash, auth) ==
  /\ ~crashed
  /\ BagSize(inflight) < RegParams.maxInflight
  /\ \E isSame \in {CompareHash(PollNdfFile(ndfState, auth), theirNdfHash)} :
       /\ inflight' = IF NdfReady /\ ~isSame THEN Spawn(inflight, PollNdfCaller(auth)) ELSE inflight
       /\ last' = [op |-> "PollNdfCompare", hash |-> theirNdfHash, auth |-> auth, ready |-> NdfReady,
                   err |-> IF NdfReady THEN "none" ELSE "NdfNotReady",
                   returned |-> ~NdfReady \/ isSame, ndf |-> <<>>]
  /\ NetUnchanged
  /\ UNCHANGED <<activity, updateChan, pollingLock>>
  /\ UNCHANGED <<NdfReady, nodeRec, ndfState, pruneList, NDFLock, probes, nodeMetrics,
                 crashed, RegParams, compose, tracker>>

\* the second step: the bytes of the definition as it is now
PollNdfGet(g) ==
  /\ ~crashed
  /\ g \in DOMAIN inflight
  /\ g.pc = "pollNdf"
  /\ inflight' = Finish(inflight, g)
  /\ last' = [op |-> "PollNdf", auth |-> g.auth, err |-> "none",
              ndf |-> <<Marshal(PollNdfFile(ndfState, g.auth).f)>>]
  /\ NetUnchanged
  /\ UNCHANGED <<activity, updateChan, pollingLock>>
  /\ UNCHANGED <<NdfReady, nodeRec, ndfState, pruneList, NDFLock, probes, nodeMetrics,
                 crashed, RegParams, compose, tracker>>

\* registration has completed: the NDF is marked ready
MarkNdfReady ==
  /\ ~crashed
  /\ ~NdfReady
  /\ NdfReady' = TRUE
  /\ UNCHANGED netVars
  /\ UNCHANGED <<nodeRec, ndfState, pruneList, NDFLock, probes, last, nodeMetrics,
                 crashed, RegParams, compose, tracker>>

\* TrackNodeMetrics is taken step by step: the ticker fires (lines 36-49);
\* for every node state the counter is read and reset (lines 52-65) and,
\* when the metric is to be stored, the row is inserted (lines 66-73); the
\* pruned nodes are set (lines 76-79); the unpruned NDF is read (line 80,
\* GetUnprunedNdf) and UpdateNdf installs the full and then the partial NDF
\* (lines 80-84). The tracker takes no lock: polls come between any two
\* steps. The ticker's loop is one goroutine: one pass is under way at a
\* time

\* the orders in which a pass can visit the node states
Orders(ns) ==
  {o \in [1..Cardinality(ns) -> ns] : \A i, j \in 1..Cardinality(ns) : i # j => o[i] # o[j]}

\* the nodes whose metric a pass stores
Stored(ns) == IF RegParams.onlyScheduleActive THEN ns \cap RegParams.active ELSE ns

\* the visit of node n, whose poll counter was read as numPolls: the
\* metric, whether the node is to be pruned and whether the metric is
\* stored
NodeMetric(n, numPolls) ==
  [row |-> [NodeId |-> n, NumPings |-> numPolls],
   prune |-> numPolls = 0 \/ (RegParams.onlyScheduleActive /\ n \notin RegParams.active),
   stores |-> n \in Stored({n})]

\* the pass of the tracker at the step pc
PassAt(pc, order, toPrune, NumPings) ==
  [pc |-> pc, order |-> order, toPrune |-> toPrune, NumPings |-> NumPings]

\* what no step of the tracker changes
TickUnchanged ==
  /\ NetUnchanged
  /\ UNCHANGED <<activity, updateChan, pollingLock>>
  /\ UNCHANGED <<NdfReady, NDFLock, probes, RegParams, compose>>

\* the ticker fires: the node states are listed. The rows of the database
\* are bounded
TickStart(order) ==
  /\ ~crashed
  /\ tracker = NoPass
  /\ Len(nodeMetrics) + Cardinality(Stored(nodeMap)) <= RegParams.maxTicks * Cardinality(Stored(nodeMap))
  /\ tracker' = PassAt("nodes", order, {}, <<>>)
  /\ last' = [op |-> "Tick", panic |-> FALSE]
  /\ TickUnchanged
  /\ UNCHANGED <<inflight, nodeRec, ndfState, pruneList, nodeMetrics, crashed>>

\* the pass after the visit of the first node of its order
Visited(t, n, m) ==
  PassAt(IF m.stores THEN "insert" ELSE IF Tail(t.order) = <<>> THEN "prune" ELSE "nodes",
         IF m.stores THEN t.order ELSE Tail(t.order),
         IF m.prune THEN t.toPrune \cup {n} ELSE t.toPrune,
         [x \in DOMAIN t.NumPings \cup {n} |-> IF x = n THEN m.row.NumPings ELSE t.NumPings[x]])

\* the next node state is visited: the counter is read and reset and the
\* node is listed for pruning. The metric is still to be stored
TickNode ==
  /\ ~crashed
  /\ tracker.pc = "nodes"
  /\ \E n \in {Head(tracker.order)} :
       \E m \in {NodeMetric(n, nodeRec[n].numPolls)} :
         /\ nodeRec' = [nodeRec EXCEPT ![n].numPolls = 0]
         /\ tracker' = Visited(tracker, n, m)
  /\ last' = [op |-> "Tick", panic |-> FALSE]
  /\ TickUnchanged
  /\ UNCHANGED <<inflight, ndfState, pruneList, nodeMetrics, crashed>>

\* the metric the pass is to store
MetricInHand(t) == [NodeId |-> Head(t.order), NumPings |-> t.NumPings[Head(t.order)]]

\* storage.PermissioningDb.InsertNodeMetric returns: the row is stored, or
\* the insert failed and the tracker panics
TickInsert(insertOk) ==
  /\ ~crashed
  /\ tracker.pc = "insert"
  /\ ~insertOk => RegParams.dbFails
  /\ nodeMetrics' = IF insertOk THEN Append(nodeMetrics, MetricInHand(tracker)) ELSE nodeMetrics
  /\ crashed' = ~insertOk
  /\ tracker' = IF ~insertOk THEN tracker
                ELSE PassAt(IF Tail(tracker.order) = <<>> THEN "prune" ELSE "nodes",
                            Tail(tracker.order), tracker.toPrune, tracker.NumPings)
  /\ last' = [op |-> "Tick", panic |-> ~insertOk]
  /\ TickUnchanged
  /\ UNCHANGED <<inflight, nodeRec, ndfState, pruneList>>

\* every node state was visited: the pruned nodes are set, unless pruning
\* is disabled and the pass is over
TickPrune ==
  /\ ~crashed
  /\ tracker.pc = "prune"
  /\ pruneList' = IF RegParams.disableNDFPruning THEN pruneList ELSE tracker.toPrune
  /\ tracker' = IF RegParams.disableNDFPruning THEN NoPass ELSE [tracker EXCEPT !.pc = "ndf"]
  /\ last' = [op |-> "Tick", panic |-> FALSE]
  /\ TickUnchanged
  /\ UNCHANGED <<inflight, nodeRec, ndfState, nodeMetrics, crashed>>

\* impl.State.GetUnprunedNdf(): the tracker holds the definition it read
TickGetUnprunedNdf ==
  /\ ~crashed
  /\ tracker.pc = "ndf"
  /\ tracker' = [pc |-> "update", order |-> tracker.order, toPrune |-> tracker.toPrune,
                 NumPings |-> tracker.NumPings, newNdf |-> ndfState.unprunedNdf]
  /\ last' = [op |-> "Tick", panic |-> FALSE]
  /\ TickUnchanged
  /\ UNCHANGED <<inflight, nodeRec, ndfState, pruneList, nodeMetrics, crashed>>

\* the definition a poll took from GetFullNdf().Get() is no longer the
\* installed one once another full NDF was installed
Detached(b) ==
  IF \E g \in DOMAIN b : g.pc = "gatewayEntry"
    THEN LET g == CHOOSE g \in DOMAIN b : g.pc = "gatewayEntry"
         IN Spawn(Finish(b, g), [g EXCEPT !.detached = TRUE])
  ELSE b

\* impl.State.UpdateNdf of the definition the tracker read, up to its first
\* install; a failure is logged and the pass is over
TickUpdateNdf ==
  /\ ~crashed
  /\ tracker.pc = "update"
  /\ \E up \in {UpdateNdf(ndfState, pruneList, tracker.newNdf, RegParams.signOk)} :
       /\ ndfState' = up.S
       /\ inflight' = IF up.err THEN inflight ELSE Detached(inflight)
       /\ tracker' = IF up.err THEN NoPass
                     ELSE [pc |-> "partial", order |-> tracker.order, toPrune |-> tracker.toPrune,
                           NumPings |-> tracker.NumPings, partialNdfMsg |-> up.partialNdfMsg]
  /\ last' = [op |-> "Tick", panic |-> FALSE]
  /\ TickUnchanged
  /\ UNCHANGED <<nodeRec, pruneList, nodeMetrics, crashed>>

\* the second install of UpdateNdf: the pass is over
TickUpdatePartialNdf ==
  /\ ~crashed
  /\ tracker.pc = "partial"
  /\ ndfState' = UpdatePartialNdf(ndfState, tracker.partialNdfMsg)
  /\ tracker' = NoPass
  /\ last' = [op |-> "Tick", panic |-> FALSE]
  /\ TickUnchanged
  /\ UNCHANGED <<inflight, nodeRec, pruneList, nodeMetrics, crashed>>

\* the steps of the metric tracker
TrackNodeMetrics ==
  \/ \E order \in Orders(nodeMap) : TickStart(order)
  \/ TickNode
  \/ \E insertOk \in BOOLEAN : TickInsert(insertOk)
  \/ TickPrune
  \/ TickGetUnprunedNdf
  \/ TickUpdateNdf
  \/ TickUpdatePartialNdf

\* ------------------------------------------------ the NDF served to callers
\* the NDF registration leaves: every node and its gateway at host 1
NdfFor(k) ==
  [Nodes |-> [i \in 1..k |-> [ID |-> i, Address |-> Address(1, ServerPort)]],
   Gateways |-> [i \in 1..k |-> [ID |-> GatewayId(i), Address |-> Address(1, 1)]]]

InitialNdf == NdfFor(NdfNodes)

\* the NDF state after the definition was published
NdfStateOf(def) ==
  [unprunedNdf |-> def,
   fullNdf |-> NdfUpdate(Sign(Marshal(def))),
   partialNdf |-> NdfUpdate(Sign(Marshal(StripNdf(def))))]

\* the node records registration leaves, with connectivity c and n0 polls
\* counted
NodeRecords(ns, c, n0) ==
  [n \in ns |-> [numPolls |-> n0, nodeAddress |-> Address(1, ServerPort),
                 gatewayAddress |-> Address(1, 1), connectivity |-> c]]

\* in the front-end specifications no round is being composed
NoCompose == compose = [done |-> TRUE]

InitFront(ns, c, n0, ready) ==
  /\ NdfReady \in ready
  /\ nodeRec = NodeRecords(ns, c, n0)
  /\ ndfState = NdfStateOf(NdfFor(Cardinality(ns)))
  /\ pruneList = {}
  /\ NDFLock = FALSE
  /\ probes = <<>>
  /\ last = [op |-> "none"]
  /\ nodeMetrics = <<>>
  /\ crashed = FALSE
  /\ NoCompose
  /\ tracker = NoPass

\* an authenticated caller that is not a dynamic host
Authenticated == [IsAuthenticated |-> TRUE, IsDynamicHost |-> FALSE]

Callers == [IsAuthenticated : BOOLEAN, IsDynamicHost : BOOLEAN]

\* the hash of the NDF body the last call returned, if it returned one
ReceivedHash ==
  IF last.op = "Poll" /\ last.FullNDF # <<>> THEN {Hash(last.FullNDF[1].Ndf)}
  ELSE IF last.op = "PollNdf" /\ last.ndf # <<>> THEN {Hash(last.ndf[1])}
  ELSE {}

\* the hashes a node sends: the current one, the one of the NDF
\* registration left and the one of the body just received
HashInputs == {ndfState.fullNdf.hash, Hash(Marshal(InitialNdf))} \cup ReceivedHash

\* the hashes a caller of PollNdf sends: those, and the ones of the
\* partial NDF
NdfHashInputs ==
  HashInputs \cup {ndfState.partialNdf.hash, Hash(Marshal(StripNdf(InitialNdf)))}

ServerAddresses == {Address(h, ServerPort) : h \in 1..AddrHosts}

GatewayAddresses == {Address(h, p) : h \in 0..AddrHosts, p \in 1..GwPorts}

\* the address of a gateway that has its host filled in with the node's
PlaceholderGateway == Address(gatewayReplaceIpPlaceholder, 1)

\* the versions of a poll, which are compatible
CompatibleVersions == [GatewayVersion |-> "empty", ServerVersion |-> "compatible"]

\* what a poll's serve step reads of its message: the activity and the
\* error payload
PollReport(a, e) == [Activity |-> a, Error |-> e]

\* the report of a node that has not started
IdleReport == PollReport(current_NOT_STARTED, NoError)

\* the number of goroutines g in a bag
CountOf(b, g) == IF g \in DOMAIN b THEN b[g] ELSE 0

\* the step is the first step of a poll of node n that got past the check
\* for banned nodes
Arrived(n) ==
  /\ last'.op = "Arrive"
  /\ last'.node = n
  /\ nodeRec'[n].numPolls = nodeRec[n].numPolls + 1

\* the step is the step op of a poll of node n, which was the poll last'.g
\* before it
Stepped(op, n) ==
  /\ last'.op = op
  /\ last'.node = n
  /\ CountOf(inflight', last'.g) = CountOf(inflight, last'.g) - 1

\* the step is the serve step of a poll of node n
Served(n) == Stepped("Poll", n)

\* the step is one in which checkIPAddresses returns to a poll of node n
\* that found one of its addresses changed
ChangeReturned(n) ==
  /\ \E op \in {"Lock", "GatewayEntry", "Publish", "Unlock"} : Stepped(op, n)
  /\ last'.returned

\* a poll of node n from the recorded addresses checks them and the
\* versions
SameAddresses(g) ==
  \/ PollNodeAddress(g, nodeRec[g.node].gatewayAddress, nodeRec[g.node].nodeAddress)
  \/ PollGatewayAddress(g, CompatibleVersions)

\* a poll changes the NDF: the lock, the entries, the two installs
PollChangesNdf(g) ==
  \/ PollLockNdf(g)
  \/ PollGatewayEntry(g)
  \/ PollPublish(g)
  \/ PollPublishPartial(g, CompatibleVersions)

InitNdf ==
  /\ InitFor(1..NdfNodes, {NdfNodes}, 0)
  /\ Limits(0, NdfNodes)
  /\ NoLookup
  /\ NoPrecheck
  /\ InitFront(1..NdfNodes, node_PortSuccessful, 0, {TRUE})
  /\ RegParams \in [signOk : {TRUE}, disableNDFPruning : BOOLEAN, onlyScheduleActive : {FALSE},
                    active : {{}}, dbFails : {FALSE}, maxPolls : {MaxPolls}, maxTicks : {MaxTicks},
                    maxInflight : {NdfInflight}]

NextNdf ==
  \/ \E n \in nodeMap, msgNil \in BOOLEAN : PollArrive(n, Authenticated, msgNil)
  \/ \E g \in DOMAIN inflight, gw \in {PlaceholderGateway, MalformedAddress}, sa \in ServerAddresses :
       PollNodeAddress(g, gw, sa)
  \/ \E g \in DOMAIN inflight : PollGatewayAddress(g, CompatibleVersions)
  \/ \E g \in DOMAIN inflight : PollChangesNdf(g)
  \/ \E g \in DOMAIN inflight, full \in {NilFull} \cup {FullOf(h) : h \in HashInputs} :
       PollCompare(g, full)
  \/ \E g \in DOMAIN inflight : PollFullNdf(g)
  \/ \E g \in DOMAIN inflight : PollPartialNdf(g)
  \/ \E g \in DOMAIN inflight, updatesOk \in BOOLEAN : PollServe(g, IdleReport, updatesOk)
  \/ TrackNodeMetrics

SpecNdf == InitNdf /\ [][NextNdf]_vars

\* ------------------------------------------------------------ C21 .. C23
\* the partial NDF message made of the definition of a full NDF message
PartialOf(fullNdfMsg) == Sign(Marshal(StripNdf(Unmarshal(fullNdfMsg.Ndf))))

\* C21: a poll that carries the hash of the current signed full NDF gets no
\* full and no partial NDF; a poll that carries any other hash gets the
\* current full and the current partial NDF, which are the two forms of
\* one NDF, and the hash of the full NDF it got is the current hash, so
\* that the following poll, carrying that hash, gets no NDF while the NDF
\* is the same
C21_HashRoundTrip ==
  /\ (last.op = "Compare" /\ last.err = "none") =>
       (last.isSame <=> last.Full.Hash = ndfState.fullNdf.hash)
  /\ last.op = "Partial" =>
       /\ last.FullNDF = <<ndfState.fullNdf.pb>>
       /\ last.PartialNDF = <<ndfState.partialNdf.pb>>
       /\ last.PartialNDF[1] = PartialOf(last.FullNDF[1])
       /\ Hash(last.FullNDF[1].Ndf) = ndfState.fullNdf.hash
  /\ last.op = "Poll" =>
       \/ last.FullNDF = <<>> /\ last.PartialNDF = <<>>
       \/ last.FullNDF # <<>> /\ last.PartialNDF # <<>>

\* ------------------------------------------ the NDF served through PollNdf
\* the callers of PollNdf, while the nodes poll and change their server
\* addresses, so that the NDF changes
InitPollNdf ==
  /\ InitFor(1..NdfNodes, {NdfNodes}, 0)
  /\ Limits(0, NdfNodes)
  /\ NoLookup
  /\ NoPrecheck
  /\ InitFront(1..NdfNodes, node_PortSuccessful, 0, BOOLEAN)
  /\ RegParams = [signOk |-> TRUE, disableNDFPruning |-> TRUE, onlyScheduleActive |-> FALSE,
                  active |-> {}, dbFails |-> FALSE, maxPolls |-> MaxPolls, maxTicks |-> 0,
                  maxInflight |-> MaxInflight]

NextPollNdf ==
  \/ MarkNdfReady
  \/ \E n \in nodeMap, msgNil \in BOOLEAN : PollArrive(n, Authenticated, msgNil)
  \/ \E g \in DOMAIN inflight, gw \in GatewayAddresses, sa \in ServerAddresses :
       PollNodeAddress(g, gw, sa)
  \/ \E g \in DOMAIN inflight : PollGatewayAddress(g, CompatibleVersions)
  \/ \E g \in DOMAIN inflight : PollChangesNdf(g)
  \/ \E g \in DOMAIN inflight : PollCompare(g, FullOf(ndfState.fullNdf.hash))
  \/ \E g \in DOMAIN inflight : PollServe(g, IdleReport, TRUE)
  \/ \E h \in NdfHashInputs, auth \in Callers : PollNdfCompare(h, auth)
  \/ \E g \in DOMAIN inflight : PollNdfGet(g)

SpecPollNdf == InitPollNdf /\ [][NextPollNdf]_vars

\* C22: PollNdf fails with the no-NDF error while the NDF is not marked
\* ready; afterwards a caller that is unauthenticated or a dynamic host is
\* served from the partial NDF, whose node entries carry no address, and an
\* authenticated caller that is not a dynamic host from the full NDF: the
\* call returns nothing when its hash is the hash of that NDF, and the
\* bytes of that NDF's definition otherwise
C22_PollNdfByCaller ==
  /\ last.op = "PollNdfCompare" =>
       LET backEnd == last.auth.IsAuthenticated /\ ~last.auth.IsDynamicHost
           file == IF backEnd THEN ndfState.fullNdf ELSE ndfState.partialNdf
       IN /\ last.ndf = <<>>
          /\ ~last.ready => last.err = "NdfNotReady" /\ last.returned
          /\ last.ready => last.err = "none" /\ (last.returned <=> last.hash = file.hash)
  /\ last.op = "PollNdf" =>
       LET backEnd == last.auth.IsAuthenticated /\ ~last.auth.IsDynamicHost
           file == IF backEnd THEN ndfState.fullNdf ELSE ndfState.partialNdf
       IN /\ last.err = "none"
          /\ last.ndf = <<Marshal(file.f)>>
          /\ ~backEnd =>
               \A i \in 1..Len(Unmarshal(last.ndf[1]).Nodes) :
                 Unmarshal(last.ndf[1]).Nodes[i].Address = NoAddress

\* C22 happens: an unauthenticated caller with the hash of the full NDF got
\* the partial NDF, which is not the full one
C22_Witness ==
  /\ last.op = "PollNdf"
  /\ ~last.auth.IsAuthenticated
  /\ last.ndf = <<Marshal(ndfState.partialNdf.f)>>
  /\ last.ndf # <<Marshal(ndfState.fullNdf.f)>>
  /\ ndfState.fullNdf.hash # Hash(Marshal(InitialNdf))

\* the entry of node n in a list of an NDF, if it has one
EntryOf(list, i) == {list[k].Address : k \in IndexOf(list, i)}

\* C23: a poll that reports a server or gateway address other than the
\* recorded one leaves, when checkIPAddresses returns, the reported
\* addresses in the node record and in the node's and the gateway's
\* entries of the NDF, the full NDF signed again with another hash that is
\* the hash of what the next poll receives, and the NDF lock free
C23_AddressChangeResignsNdf ==
  [][\A n \in nodeMap :
       ChangeReturned(n)
       => /\ nodeRec'[n].nodeAddress = last'.g.nodeAddress
          /\ nodeRec'[n].gatewayAddress = last'.g.gatewayAddress
          /\ EntryOf(ndfState'.fullNdf.f.Nodes, n) = {last'.g.nodeAddress}
          /\ EntryOf(ndfState'.fullNdf.f.Gateways, GatewayId(n)) = {last'.g.gatewayAddress}
          /\ ndfState'.fullNdf.hash # last'.was.hash
          /\ ndfState'.fullNdf.hash = Hash(Marshal(ndfState'.fullNdf.f))
          /\ ~NDFLock']_vars

\* ------------------------------------- the precondition checks of a poll
\* One poll is followed through the checks of Poll: what it carries and
\* who sends it is drawn when the run starts. The other node polls once
\* from a new server address, so that its poll takes m.NDFLock and
\* publishes the NDF while the poll that is followed is between two steps
PreOther == NdfNodes

PreNode == NdfNodes - 1

\* a node id without a node record
UnknownNodeId == NdfNodes + 1

\* the polls that are followed: whether the poll has a message, the
\* caller, the node id it polls as, the versions and the addresses
PollInputs ==
  [msgNil : BOOLEAN, auth : Callers, node : {PreNode, UnknownNodeId},
   versions : [GatewayVersion : GatewayVersions, ServerVersion : ServerVersions],
   serverAddress : ServerAddresses,
   GatewayAddress : {Address(1, 1), PlaceholderGateway, MalformedAddress}]

\* what the poll of node n carries
PreMsgNil(n) == IF n = PreOther THEN FALSE ELSE pre.in.msgNil

PreAuth(n) == IF n = PreOther THEN Authenticated ELSE pre.in.auth

PreVersions(n) == IF n = PreOther THEN CompatibleVersions ELSE pre.in.versions

PreServerAddress(n) == IF n = PreOther THEN Address(2, ServerPort) ELSE pre.in.serverAddress

PreGatewayAddress(n) == IF n = PreOther THEN Address(1, 1) ELSE pre.in.GatewayAddress

InitPre ==
  /\ \E banned \in SUBSET {PreNode} : InitNetWith(1..NdfNodes, {NdfNodes}, 0, banned)
  /\ sc = StillClock
  /\ Limits(0, NdfNodes)
  /\ NoLookup
  /\ \E in \in PollInputs : pre = [done |-> FALSE, in |-> in]
  /\ InitFront(1..NdfNodes, node_PortSuccessful, 0, BOOLEAN)
  /\ RegParams = [signOk |-> TRUE, disableNDFPruning |-> TRUE, onlyScheduleActive |-> FALSE,
                  active |-> {}, dbFails |-> FALSE, maxPolls |-> MaxPolls, maxTicks |-> 0,
                  maxInflight |-> MaxInflight]

NextPre ==
  \/ \E n \in {pre.in.node, PreOther} : PollArrive(n, PreAuth(n), PreMsgNil(n))
  \/ \E g \in DOMAIN inflight :
       PollNodeAddress(g, PreGatewayAddress(g.node), PreServerAddress(g.node))
  \/ \E g \in DOMAIN inflight : PollGatewayAddress(g, PreVersions(g.node))
  \/ \E g \in DOMAIN inflight : PollLockNdf(g)
  \/ \E g \in DOMAIN inflight : PollGatewayEntry(g)
  \/ \E g \in DOMAIN inflight : PollPublish(g)
  \/ \E g \in DOMAIN inflight : PollPublishPartial(g, PreVersions(g.node))
  \/ \E g \in DOMAIN inflight : PollCompare(g, FullOf(ndfState.fullNdf.hash))
  \/ \E g \in DOMAIN inflight : PollServe(g, IdleReport, TRUE)

SpecPre == InitPre /\ [][NextPre]_vars

\* ------------------------------------------------------------------- C19
\* the error the five preconditions give in the stated order: NDF ready,
\* caller authenticated and not a dynamic host, node record exists, node not
\* banned, versions compatible
FirstFailingCheck(in) ==
  IF ~NdfReady THEN "NdfNotReady"
  ELSE IF ~in.auth.IsAuthenticated \/ in.auth.IsDynamicHost THEN "AuthError"
  ELSE IF in.node \notin nodeMap THEN "UnknownNode"
  ELSE IF status[in.node] = Banned THEN "Banned"
  ELSE IF checkVersion(in.versions) THEN "VersionIncompatible"
  ELSE "none"

\* the poll counter, the addresses, the NDF entries and the activity of
\* node n are what registration left
AsRegistered(n) ==
  n \in nodeMap =>
    /\ nodeRec[n].numPolls = 0
    /\ nodeRec[n].nodeAddress = Address(1, ServerPort)
    /\ nodeRec[n].gatewayAddress = Address(1, 1)
    /\ EntryOf(ndfState.fullNdf.f.Nodes, n) = {Address(1, ServerPort)}
    /\ EntryOf(ndfState.fullNdf.f.Gateways, GatewayId(n)) = {Address(1, 1)}
    /\ activity[n] = current_NOT_STARTED

\* the step is one in which the poll of node n returns from its version
\* check or goes on past it
VersionChecked(n) ==
  /\ last'.op \in {"GatewayAddress", "Unlock"}
  /\ last'.node = n

\* C19: the poll, when it has a message, is stopped by the first of the
\* five preconditions that fails, in the stated order, and a poll that is
\* stopped leaves the node's poll counter, its addresses, its entries of
\* the NDF and its activity as they were
C19_ChecksBeforeEffects ==
  [][\A n \in {pre.in.node} :
       /\ (last'.op = "Arrive" /\ last'.node = n) =>
            /\ last'.err = "none" => FirstFailingCheck(pre.in) \in {"VersionIncompatible", "none"}
            /\ last'.err # "none" =>
                 /\ pre.in.msgNil => last'.err = "NilMessage"
                 /\ ~pre.in.msgNil => last'.err = FirstFailingCheck(pre.in)
                 /\ AsRegistered(n)'
       /\ VersionChecked(n) =>
            /\ last'.err = FirstFailingCheck(pre.in)
            /\ last'.err # "none" => AsRegistered(n)'
       /\ \A g \in DOMAIN inflight' :
            (g.node = n /\ g.pc = "checked") => FirstFailingCheck(pre.in) = "none"]_vars

\* --------------------------------------------- the connectivity of a node
\* a probe started by a poll finishes: it sets the connectivity it found
ProbeDone(n, nodePing, gwPing) ==
  /\ ~crashed
  /\ n \in DOMAIN probes
  /\ nodeRec' = [nodeRec EXCEPT ![n].connectivity = ProbeResult(nodePing, gwPing)]
  /\ probes' = RemoveProbe(probes, n)
  /\ UNCHANGED netVars
  /\ UNCHANGED <<NdfReady, ndfState, pruneList, NDFLock, last, nodeMetrics, crashed, RegParams,
                 compose, tracker>>

\* the states a run starts from: a node just registered; a node that has
\* polled since the last tick of the metric tracker, was found reachable
\* and comes up to the count of the forced retry; and a node that comes up
\* to that count with its connectivity unknown, its polls so far having
\* returned before checkConnectivity
ConnStarts ==
  {[connectivity |-> node_PortUnknown, numPolls |-> 0],
   [connectivity |-> node_PortSuccessful, numPolls |-> RetryRemainder - (ConnPolls - 1)],
   [connectivity |-> node_PortUnknown, numPolls |-> RetryRemainder - ConnPolls]}

InitConn ==
  /\ InitFor(1..ConnNodes, {ConnNodes}, 0)
  /\ Limits(0, ConnNodes)
  /\ NoLookup
  /\ NoPrecheck
  /\ \E start \in ConnStarts :
       /\ InitFront(1..ConnNodes, start.connectivity, start.numPolls, {TRUE})
       /\ RegParams = [signOk |-> TRUE, disableNDFPruning |-> TRUE, onlyScheduleActive |-> FALSE,
                       active |-> {}, dbFails |-> FALSE,
                       maxPolls |-> start.numPolls + ConnPolls, maxTicks |-> 0,
                       maxInflight |-> MaxInflight]

NextConn ==
  \/ \E n \in nodeMap, msgNil \in BOOLEAN : PollArrive(n, Authenticated, msgNil)
  \/ \E g \in DOMAIN inflight, sa \in ServerAddresses : PollNodeAddress(g, Address(1, 1), sa)
  \/ \E g \in DOMAIN inflight : PollGatewayAddress(g, CompatibleVersions)
  \/ \E g \in DOMAIN inflight : PollLockNdf(g)
  \/ \E g \in DOMAIN inflight : PollPublish(g)
  \/ \E g \in DOMAIN inflight : PollPublishPartial(g, CompatibleVersions)
  \/ \E g \in DOMAIN inflight : PollCompare(g, FullOf(ndfState.fullNdf.hash))
  \/ \E g \in DOMAIN inflight, a \in {current_NOT_STARTED, current_WAITING, current_ERROR},
        updatesOk \in BOOLEAN :
       PollServe(g, PollReport(a, IF a = current_ERROR THEN RoundError(0, g.node) ELSE NoError),
                 updatesOk)
  \/ \E g \in DOMAIN inflight : PollRetryCount(g)
  \/ \E g \in DOMAIN inflight : PollRetry(g)
  \/ \E g \in DOMAIN inflight : PollStopped(g)
  \/ \E g \in DOMAIN inflight : PollUpdate(g)
  \/ \E n \in nodeMap, nodePing \in BOOLEAN, gwPing \in BOOLEAN : ProbeDone(n, nodePing, gwPing)
  \/ SchedulerUpdate

SpecConn == InitConn /\ [][NextConn]_vars

\* ------------------------------------------------------------ C24, C25
\* the polls of node n in the bag b that have gone on to the commit of their
\* report
ToCommit(b, n) == BagCount(b, {g \in DOMAIN b : g.node = n /\ g.pc \in {"report", "served"}})

\* the step is one of the steps a poll of node n takes on its way out with
\* the port-failed error: the read of the poll count and the forced retry
FailedPathStep(n) == Stepped("RetryCount", n) \/ Stepped("Retry", n)

\* C24: a poll that has fetched the round updates and finds the node's
\* connectivity NodePortFailed, GatewayPortFailed or PortFailed returns the
\* port-failed error and commits no activity, at the check or at a later
\* step of its way out, unless it reports ERROR: then the poll goes on to
\* the commit of its report
C24_PortFailedUnlessError ==
  [][\A n \in nodeMap :
       /\ (/\ Served(n)
           /\ last'.err # "GetUpdates"
           /\ nodeRec[n].connectivity \in FailedPorts)
          => IF last'.msg.Activity = current_ERROR
               THEN /\ last'.err = "none"
                    /\ ToCommit(inflight', n) = ToCommit(inflight, n) + 1
               ELSE /\ last'.err = "PortFailed"
                    /\ ToCommit(inflight', n) = ToCommit(inflight, n)
                    /\ activity' = activity
                    /\ updateChan' = updateChan
       /\ FailedPathStep(n)
          => /\ last'.err = "PortFailed"
             /\ ToCommit(inflight', n) = ToCommit(inflight, n)
             /\ activity' = activity
             /\ updateChan' = updateChan]_vars

\* the edges of the connectivity states: a probe is started, a probe
\* finishes, and the forced retry of a failed node on the poll whose count
\* is 13 modulo 211
ConnectivityEdge(from, to, count) ==
  \/ from = node_PortUnknown /\ to = node_PortVerifying
  \/ from = node_PortVerifying /\ to \in {node_PortSuccessful} \cup FailedPorts
  \/ from \in FailedPorts /\ to = node_PortUnknown /\ count % RetryModulus = RetryRemainder

\* C25: the connectivity of a node changes along the edges Unknown ->
\* Verifying, Verifying -> Successful or one of the three failed states,
\* and failed -> Unknown on a poll whose count is 13 modulo 211, and in no
\* other way
C25_ConnectivityEdges ==
  [][\A n \in nodeMap :
       nodeRec'[n].connectivity # nodeRec[n].connectivity =>
         ConnectivityEdge(nodeRec[n].connectivity, nodeRec'[n].connectivity,
                          nodeRec'[n].numPolls)]_vars

\* ================================================== the round composition
\* strconv.Atoi on an ordering tag: the position, or an error for a tag
\* that is not a number. "01" and "1" are the same number
TagValue == [t \in {"0", "1", "2", "3", "4", "01"} |->
               CASE t = "0" -> 0 [] t = "1" -> 1 [] t = "01" -> 1 [] t = "2" -> 2
                 [] t = "3" -> 3 [] OTHER -> 4]

Atoi(t) ==
  IF t \in DOMAIN TagValue THEN [err |-> FALSE, position |-> TagValue[t]]
  ELSE [err |-> TRUE, position |-> 0]

\* the ordering tags of the nodes: the positions of a team, a second
\* spelling of position 1 and a country code
OrderingTags == {"0", "1", "2", "01", "US"}

\* the entry of an ordered node list that was never assigned
nilID == -1

\* waitingPool.CleanOfflineNodes: the offline nodes not seen for longer than
\* the interval leave the offline subset
CleanOfflineNodes(offline, stale) == offline \ stale

\* waitingPool.PickNRandAtThreshold: the draws of n distinct nodes of the
\* online subset, none when the subset is smaller than the threshold
PickNRandAtThreshold(online, n, threshold) ==
  IF Cardinality(online) < threshold THEN {}
  ELSE {d \in [1..n -> online] : \A i, j \in 1..n : i # j => d[i] # d[j]}

\* the loop over the drawn nodes with RandomOrdering false: node i is put
\* at the position its tag gives. A tag that is not a number ends the
\* composition with an error, a position outside the list is an index out
\* of range; a position that is taken is overwritten
RECURSIVE PlaceByOrdering(_, _, _, _)
PlaceByOrdering(nodes, i, ordering, list) ==
  IF i > Len(nodes) THEN [err |-> "none", list |-> list]
  ELSE LET a == Atoi(ordering[nodes[i]])
       IN IF a.err THEN [err |-> "BadOrdering", list |-> list]
          ELSE IF a.position + 1 \notin DOMAIN list THEN [err |-> "panic", list |-> list]
          ELSE PlaceByOrdering(nodes, i + 1, ordering, [list EXCEPT ![a.position + 1] = nodes[i]])

\* the loop with RandomOrdering true: node i is put at position
\* randomIndex[i] of the shuffled indices
PlaceByShuffle(nodes, randomIndex) ==
  [err |-> "none",
   list |-> [p \in 1..Len(nodes) |-> nodes[CHOOSE i \in 1..Len(nodes) : randomIndex[i] = p]]]

NoRound == [Topology |-> <<>>, ID |-> 0, BatchSize |-> 0, NodeStateList |-> <<>>]

\* createSimpleRound with its inputs: the parameters, the two subsets of
\* the pool, the tags, the draw and the shuffle the random source gives,
\* and whether connect.NewCircuit panics on a list with an entry that was
\* never assigned. The result is the error, the round, and the two subsets
\* as the call leaves them
composeRound(params, online, offline, stale, ordering, roundID, nodes, randomIndex, circuitPanics) ==
  LET cleaned == CleanOfflineNodes(offline, stale)
      drawn == {nodes[i] : i \in 1..Len(nodes)}
      empty == [i \in 1..params.TeamSize |-> nilID]
      placed == IF params.RandomOrdering THEN PlaceByShuffle(nodes, randomIndex)
                ELSE PlaceByOrdering(nodes, 1, ordering, empty)
      hasNil == \E i \in 1..Len(placed.list) : placed.list[i] = nilID
      fail(e, on) == [err |-> e, round |-> NoRound, online |-> on, offline |-> cleaned]
  IN IF nodes = <<>> THEN fail("PoolInsufficient", online)
     ELSE IF placed.err # "none" THEN fail(placed.err, online \ drawn)
     ELSE IF hasNil /\ circuitPanics THEN fail("panic", online \ drawn)
     ELSE [err |-> "none",
           round |-> [Topology |-> placed.list, ID |-> roundID, BatchSize |-> params.BatchSize,
                      NodeStateList |-> nodes],
           online |-> online \ drawn, offline |-> cleaned]

\* the shuffles of the indices of a team
Shuffles(n) == {p \in [1..n -> 1..n] : \A i, j \in 1..n : i # j => p[i] # p[j]}

\* one call of createSimpleRound on the pool
Compose(nodes, randomIndex, circuitPanics) ==
  LET params == [TeamSize |-> teamSize, BatchSize |-> compose.BatchSize,
                 RandomOrdering |-> compose.RandomOrdering]
      out == composeRound(params, pool, compose.offline, compose.stale, compose.ordering,
                          Len(rounds) + 1, nodes, randomIndex, circuitPanics)
  IN /\ ~compose.done
     /\ \/ nodes \in PickNRandAtThreshold(pool, teamSize, teamSize)
        \/ nodes = <<>> /\ PickNRandAtThreshold(pool, teamSize, teamSize) = {}
     /\ pool' = out.online
     /\ compose' = [compose EXCEPT !.done = TRUE, !.offline = out.offline,
                                   !.stale = @ \cap out.offline,
                                   !.before = [online |-> pool, offline |-> compose.offline,
                                               stale |-> compose.stale],
                                   !.err = out.err, !.round = out.round]
     /\ UNCHANGED <<storageState, sc, spawned, inflight, teamSize, roundLimit, nodeMap, stopped, halted, activity, status, currentRound,
                    pollingLock, rounds, roundMap, roundTracker, roundUpdates, currentUpdate,
                    updateChan, roundMetrics, roundErrors, deletions, faults, chk, faultLimit,
                    chanCap, pre>>
     /\ UNCHANGED <<NdfReady, nodeRec, ndfState, pruneList, NDFLock, probes, last, nodeMetrics,
                    crashed, RegParams, tracker>>

\* the pools a composition starts from: every node is in the online
\* subset (it reported WAITING), in the offline subset, fresh or stale, or
\* in neither (it has not started)
PoolPlaces == {"online", "offline", "stale", "absent"}

InitCompose ==
  /\ \E place \in [1..ComposeNodes -> PoolPlaces] :
       /\ pool = {n \in 1..ComposeNodes : place[n] = "online"}
       /\ activity = [n \in 1..ComposeNodes |->
                        IF place[n] = "absent" THEN current_NOT_STARTED ELSE current_WAITING]
       /\ \E o \in [1..ComposeNodes -> OrderingTags], random \in BOOLEAN :
            compose = [done |-> FALSE, RandomOrdering |-> random, BatchSize |-> ComposeBatch,
                       ordering |-> o,
                       offline |-> {n \in 1..ComposeNodes : place[n] \in {"offline", "stale"}},
                       stale |-> {n \in 1..ComposeNodes : place[n] = "stale"},
                       before |-> [online |-> {}, offline |-> {}, stale |-> {}],
                       err |-> "none", round |-> NoRound]
  /\ teamSize \in 2..ComposeNodes
  /\ roundLimit = 1
  /\ nodeMap = 1..ComposeNodes
  /\ stopped = FALSE
  /\ halted = FALSE
  /\ status = [n \in 1..ComposeNodes |-> Active]
  /\ currentRound = [n \in 1..ComposeNodes |-> 0]
  /\ pollingLock = [n \in 1..ComposeNodes |-> FALSE]
  /\ rounds = <<>>
  /\ roundMap = {}
  /\ roundTracker = {}
  /\ roundUpdates = <<DummyUpdate>>
  /\ currentUpdate = 0
  /\ updateChan = <<>>
  /\ roundMetrics = [r \in 1..1 |-> 0]
  /\ roundErrors = [r \in 1..1 |-> <<>>]
  /\ deletions = [r \in 1..1 |-> 0]
  /\ faults = 0
  /\ Limits(0, ComposeNodes)
  /\ NoLookup
  /\ NoPrecheck
  /\ NdfReady = TRUE
  /\ nodeRec = <<>>
  /\ ndfState = <<>>
  /\ pruneList = {}
  /\ NDFLock = FALSE
  /\ probes = <<>>
  /\ last = [op |-> "none"]
  /\ nodeMetrics = <<>>
  /\ crashed = FALSE
  /\ RegParams = <<>>
  /\ tracker = NoPass
  /\ spawned = <<>>
  /\ inflight = <<>>
  /\ sc = StillClock
  /\ storageState = NewState

NextCompose ==
  \E nodes \in {<<>>} \cup PickNRandAtThreshold(pool, teamSize, teamSize),
     randomIndex \in Shuffles(teamSize), circuitPanics \in BOOLEAN :
    Compose(nodes, randomIndex, circuitPanics)

SpecCompose == InitCompose /\ [][NextCompose]_vars

\* ------------------------------------------------------------ C26, C27
\* C26: createSimpleRound returns a round exactly when the online subset
\* holds TeamSize nodes or more; the topology of the round has TeamSize
\* entries, all different, all nodes of the online subset as it was, and
\* the round carries the round id and the batch size; the stale offline
\* nodes have left the pool
C26_RoundIffPoolLargeEnough ==
  compose.done =>
    /\ compose.err = "none" <=> Cardinality(compose.before.online) >= teamSize
    /\ compose.offline = compose.before.offline \ compose.before.stale
    /\ compose.err = "none" =>
         /\ Len(compose.round.Topology) = teamSize
         /\ Cardinality(Members(compose.round)) = teamSize
         /\ Members(compose.round) \subseteq compose.before.online
         /\ Members(compose.round) \cap compose.before.offline = {}
         /\ Members(compose.round) = {compose.round.NodeStateList[i] : i \in 1..teamSize}
         /\ compose.round.ID = Len(rounds) + 1
         /\ compose.round.BatchSize = ComposeBatch

\* C27: with RandomOrdering false every drawn node is at the position of
\* the topology its tag gives, and the composition fails with the ordering
\* error, without a round, when the tag of a drawn node is not a number or
\* two drawn nodes have the same tag
C27_BadOrdering ==
  (compose.done /\ ~compose.RandomOrdering /\ compose.err # "PoolInsufficient") =>
    \A drawn \in SUBSET compose.before.online :
      (drawn = compose.before.online \ pool) =>
        IF \/ \E n \in drawn : compose.ordering[n] \notin DOMAIN TagValue
           \/ \E n, k \in drawn : n # k /\ compose.ordering[n] = compose.ordering[k]
          THEN compose.err = "BadOrdering" /\ compose.round = NoRound
          ELSE compose.err = "none" =>
                 \A n \in drawn :
                   compose.round.Topology[TagValue[compose.ordering[n]] + 1] = n

\* ================================================= the metric tracker
\* the configurations of a run: NDF pruning on or off, the tracker told to
\* keep only the active nodes or not, the active nodes the database lists
\* (none when the list cannot be read), and whether inserts can fail
MetricParams ==
  {p \in [signOk : {TRUE}, disableNDFPruning : BOOLEAN, onlyScheduleActive : BOOLEAN,
           active : SUBSET (1..NdfNodes), dbFails : BOOLEAN, maxPolls : {MetricPolls},
           maxTicks : {MetricTicks}, maxInflight : {MetricInflight}] :
     p.onlyScheduleActive \/ p.active = {}}

InitMetric ==
  /\ InitFor(1..NdfNodes, {NdfNodes}, 0)
  /\ Limits(0, NdfNodes)
  /\ NoLookup
  /\ NoPrecheck
  /\ InitFront(1..NdfNodes, node_PortSuccessful, 0, {TRUE})
  /\ RegParams \in MetricParams

\* the nodes poll from their recorded addresses; the tracker ticks, and an
\* insert of a tick may fail
NextMetric ==
  \/ \E n \in nodeMap, msgNil \in BOOLEAN : PollArrive(n, Authenticated, msgNil)
  \/ \E g \in DOMAIN inflight : SameAddresses(g)
  \/ \E g \in DOMAIN inflight : PollCompare(g, FullOf(ndfState.fullNdf.hash))
  \/ \E g \in DOMAIN inflight : PollServe(g, IdleReport, TRUE)
  \/ TrackNodeMetrics

SpecMetric == InitMetric /\ [][NextMetric]_vars

\* ------------------------------------------------------------ C28 .. C30
\* the step is the last step of a pass of the metric tracker
Ticked ==
  /\ tracker.pc \in {"prune", "update", "partial"}
  /\ tracker'.pc = "none"

\* C28: a tick puts every node whose poll counter it read as zero on the
\* pruned list; with NDF pruning enabled the NDF advertised after the tick
\* has no node of the pruned list and has every node whose counter the tick
\* did not read as zero
C28_PruneOnTick ==
  [][Ticked =>
       /\ \A n \in nodeMap : tracker.NumPings[n] = 0 => n \in tracker.toPrune
       /\ ~RegParams.disableNDFPruning =>
            /\ pruneList' = tracker.toPrune
            /\ Advertised(ndfState') \cap pruneList' = {}
            /\ \A n \in nodeMap : tracker.NumPings[n] > 0 => n \in Advertised(ndfState')]_vars

\* the polls that were served without an error
Successful == {"none", "NotStarted"}

\* C29: a node that was pruned from the advertised NDF is in the
\* advertised NDF again after its next successful poll: after the poll
\* that arrived when the node was pruned, was the node's only poll in
\* flight and was served without an error when no pass of the tracker
\* was under way
C29_RestoredOnPoll ==
  [][\A n \in nodeMap :
       (/\ Served(n)
        /\ last'.g.pruned
        /\ PollsOf(n) = {last'.g} /\ inflight[last'.g] = 1
        /\ tracker = NoPass
        /\ n \in pruneList
        /\ last'.err \in Successful)
       => n \in Advertised(ndfState')]_vars

\* C30: a failure to store a node metric does not terminate the process:
\* the tick stores the rows of the other nodes it is to store and the
\* tracker and the polls go on
C30_StorageFailureDropped ==
  /\ ~crashed
  /\ last.op = "Tick" => ~last.panic


\* ===================================================================
\* The transition table's round look-ups (SpecTable)
\* ===================================================================

\* the (activity, phase) pairs that are stated to be consistent
ListedRoundState(a, phase) ==
  \/ a = current_PRECOMPUTING /\ phase = states_PRECOMPUTING
  \/ a = current_STANDBY /\ phase = states_PRECOMPUTING
  \/ a = current_REALTIME /\ phase = states_QUEUED
  \/ a = current_COMPLETED /\ phase = states_REALTIME

\* C31: IsValidRoundState(activity, phase) is true for (PRECOMPUTING,
\* PRECOMPUTING), (STANDBY, PRECOMPUTING), (REALTIME, QUEUED) and
\* (COMPLETED, REALTIME), and false for NOT_STARTED, WAITING and ERROR
\* paired with PENDING
C31_RoundStateTable ==
  chk.done =>
    /\ ListedRoundState(chk.to, chk.phase) => chk.roundOk
    /\ (chk.to \in {current_NOT_STARTED, current_WAITING, current_ERROR}
          /\ chk.phase = states_PENDING) => ~chk.roundOk

\* the look-up of STANDBY with the round in PRECOMPUTING has been made and
\* answered yes
C31_Witness ==
  /\ chk.done
  /\ chk.to = current_STANDBY
  /\ chk.phase = states_PRECOMPUTING
  /\ chk.roundOk

\* the stated answers of NeedsRound
ListedNeedsRound(a) ==
  CASE a \in {current_NOT_STARTED, current_WAITING} -> 0
    [] a \in {current_PRECOMPUTING, current_STANDBY, current_REALTIME, current_COMPLETED} -> 1
    [] a = current_ERROR -> 2

\* C32: NeedsRound(activity) is 0 for NOT_STARTED and WAITING, 1 for
\* PRECOMPUTING, STANDBY, REALTIME and COMPLETED, and 2 for ERROR
C32_NeedsRoundTable ==
  (chk.done /\ chk.to # current_CRASH) => chk.needs = ListedNeedsRound(chk.to)

\* the look-up for ERROR has been made and answered 2
C32_Witness ==
  /\ chk.done
  /\ chk.to = current_ERROR
  /\ chk.needs = 2

\* ===================================================================
\* The realtime start of queued rounds (SpecClock)
\* ===================================================================

\* the durations a configuration can hold: nothing keeps them from being
\* negative
Durations(max) == -1..max

InitClock ==
  /\ InitNet(1..ClockNodes, 1..ClockNodes, ClockRounds)
  /\ Limits(0, ClockNodes)
  /\ NoLookup
  /\ NoPrecheck
  /\ NoFront
  /\ \E delay \in Durations(MaxDelay), delta \in Durations(MaxDelta) :
       sc = [now |-> Epoch, lastRealtime |-> 0, realtimeDelay |-> delay, realtimeDelta |-> delta]

\* time passes
Advance ==
  /\ sc.now < Epoch + MaxNow
  /\ sc' = [sc EXCEPT !.now = @ + 1]
  /\ UNCHANGED storageState
  /\ UNCHANGED netVarsNoClock
  /\ UNCHANGED frontVars

NextClock ==
  \/ \E n \in nodeMap : Poll(n, NextActivity(activity[n]), NoError)
  \/ SchedulerUpdate
  \/ RunGoroutines
  \/ CreateRound
  \/ Advance

SpecClock == InitClock /\ [][NextClock]_vars

\* the rounds that have been queued
Queued == {rid \in 1..Len(rounds) : states_QUEUED \in rounds[rid].Stamped}

\* the greater of two instants
Max(a, b) == IF a >= b THEN a ELSE b

\* C33: when a round becomes QUEUED its realtime start is
\* max(now + RealtimeDelay, lastRealtime + RealtimeDelta) and lastRealtime
\* is set to it; lastRealtime never decreases, and the realtime starts of
\* two rounds queued one after the other differ by at least RealtimeDelta
C33_RealtimeStart ==
  [][/\ \A rid \in 1..Len(rounds') :
          (states_QUEUED \in rounds'[rid].Stamped /\ rid \notin Queued) =>
            /\ rounds'[rid].queuedTs = Max(sc.now + sc.realtimeDelay,
                                           sc.lastRealtime + sc.realtimeDelta)
            /\ sc'.lastRealtime = rounds'[rid].queuedTs
            /\ \A prev \in Queued :
                 rounds'[rid].queuedTs - rounds[prev].queuedTs >= sc.realtimeDelta
     /\ sc'.lastRealtime >= sc.lastRealtime]_vars

\* two rounds have been queued and the second was held back by the first:
\* it starts after the delay has passed
C33_Witness ==
  \E r1, r2 \in Queued :
    /\ r1 # r2
    /\ sc.realtimeDelta > 0
    /\ rounds[r2].queuedTs = rounds[r1].queuedTs + sc.realtimeDelta
    /\ rounds[r2].queuedTs > sc.now + sc.realtimeDelay
    /\ sc.lastRealtime = rounds[r2].queuedTs

\* ===================================================================
\* The poll counter and the node metrics (SpecMetric)
\* ===================================================================

\* the pings the stored rows hold for node n
RECURSIVE PingsIn(_, _)
PingsIn(rows, n) ==
  IF rows = <<>> THEN 0
  ELSE (IF Head(rows).NodeId = n THEN Head(rows).NumPings ELSE 0) + PingsIn(Tail(rows), n)

\* the pings of node n in the metric the tracker is storing
InHand(n) ==
  IF tracker.pc = "insert" /\ ~crashed /\ MetricInHand(tracker).NodeId = n
    THEN MetricInHand(tracker).NumPings
  ELSE 0

\* the polls of node n accounted for: in the stored metrics, in the metric
\* that is being stored, or in the counter that the next tick will read
Counted(n) == PingsIn(nodeMetrics, n) + InHand(n) + nodeRec[n].numPolls

\* C34: no poll is lost or counted twice: a poll that increments the
\* counter of a node adds one to what the node's metrics and its counter
\* hold together, a tick's read-and-reset moves the counter's value into
\* the metrics and leaves the sum as it is
C34_NoPollLost ==
  [][\A n \in nodeMap :
       Counted(n)' = Counted(n) + (IF Arrived(n) THEN 1 ELSE 0)]_vars

\* ===================================================================
\* The forced retry of a failed node under the metric tracker (SpecRetry)
\* ===================================================================

InitRetry ==
  /\ InitFor(1..RetryNodes, {RetryNodes}, 0)
  /\ Limits(0, RetryNodes)
  /\ NoLookup
  /\ NoPrecheck
  /\ InitFront(1..RetryNodes, node_PortUnknown, 0, {TRUE})
  /\ RegParams \in [signOk : {TRUE}, disableNDFPruning : BOOLEAN, onlyScheduleActive : {TRUE},
                    active : {{}}, dbFails : {FALSE},
                    maxPolls : {RetryRemainder + RetryExtra}, maxTicks : {0},
                    maxInflight : {RetryInflight}]

\* a poll of node n arrives with its message. The node polls again when
\* fewer probes than the bound are in flight
RetryPoll(n) ==
  /\ BagSize(probes) < RetryProbes
  /\ PollArrive(n, Authenticated, FALSE)

\* a poll of node n from its recorded addresses goes on with them
RetryNodeAddress(n) ==
  \E g \in PollsOf(n) :
    PollNodeAddress(g, nodeRec[n].gatewayAddress, nodeRec[n].nodeAddress)

RetryGatewayAddress(n) == \E g \in PollsOf(n) : PollGatewayAddress(g, CompatibleVersions)

\* a poll of node n that holds the current NDF goes on with its hash
RetryCompare(n) == \E g \in PollsOf(n) : PollCompare(g, FullOf(ndfState.fullNdf.hash))

\* a poll of node n goes on with the connectivity
RetryServe(n) == \E g \in PollsOf(n) : PollServe(g, IdleReport, TRUE)

\* a poll of node n that read the ports as failed goes on with the poll
\* counter, and with the forced retry
RetryCount(n) == \E g \in PollsOf(n) : PollRetryCount(g)

RetryReset(n) == \E g \in PollsOf(n) : PollRetry(g)

\* the steps of the tracker when no metric is stored
RetryTick ==
  \/ \E order \in Orders(nodeMap) : TickStart(order)
  \/ TickNode
  \/ TickPrune
  \/ TickGetUnprunedNdf
  \/ TickUpdateNdf
  \/ TickUpdatePartialNdf

\* the probe of node n finishes
RetryProbe(n) == \E nodePing \in BOOLEAN, gwPing \in BOOLEAN : ProbeDone(n, nodePing, gwPing)

NextRetry ==
  \/ \E n \in nodeMap : RetryPoll(n)
  \/ \E n \in nodeMap : RetryNodeAddress(n)
  \/ \E n \in nodeMap : RetryGatewayAddress(n)
  \/ \E n \in nodeMap : RetryCompare(n)
  \/ \E n \in nodeMap : RetryServe(n)
  \/ \E n \in nodeMap : RetryCount(n)
  \/ \E n \in nodeMap : RetryReset(n)
  \/ \E n \in nodeMap : RetryProbe(n)
  \/ RetryTick

\* the node keeps polling, every poll and every probe goes on, the ticker
\* keeps firing and every pass goes on
SpecRetry ==
  /\ InitRetry
  /\ [][NextRetry]_vars
  /\ \A n \in 1..RetryNodes :
       /\ WF_vars(RetryPoll(n)) /\ WF_vars(RetryNodeAddress(n)) /\ WF_vars(RetryGatewayAddress(n))
       /\ WF_vars(RetryCompare(n)) /\ WF_vars(RetryServe(n)) /\ WF_vars(RetryProbe(n))
       /\ WF_vars(RetryCount(n)) /\ WF_vars(RetryReset(n))
  /\ WF_vars(RetryTick)

\* C35: a node whose connectivity is NodeFailed, GatewayFailed or
\* BothFailed and which keeps polling is eventually reset to Unknown, in
\* every interleaving with the ticks of the metric tracker
C35_FailedEventuallyRetried ==
  \A n \in 1..RetryNodes :
    (nodeRec[n].connectivity \in FailedPorts) ~> (nodeRec[n].connectivity = node_PortUnknown)

\* ===================================================================
\* Lookup-or-create of a node record in storage.State (SpecNodeStates)
\* ===================================================================

\* current.Activity.ConvertToRoundState: -1 when the activity has no round
\* state
ConvertToRoundState(a) ==
  CASE a = current_WAITING -> states_PENDING
    [] a = current_PRECOMPUTING -> states_PRECOMPUTING
    [] a = current_STANDBY -> states_STANDBY
    [] a = current_REALTIME -> states_REALTIME
    [] a = current_COMPLETED -> states_COMPLETED
    [] a = current_ERROR -> states_FAILED
    [] OTHER -> -1

\* the activities the callers report
LookupActivities == {current_NOT_STARTED, current_WAITING, current_CRASH}

\* another goroutine is inside GetNodeState, reading or writing the map
Racing(T, c) ==
  \E d \in DOMAIN T.calls : d # c /\ T.calls[d].pc \in {"check", "insert", "return"}

\* GetNodeState, the test of the map entry: when the entry is nil the
\* caller goes on to create one
getNodeStateCheck(T, c) ==
  [T EXCEPT !.calls[c].pc = IF T.NodeStates[T.calls[c].id] = 0 THEN "insert" ELSE "return"]

\* GetNodeState, the assignment of a new NodeState to the map entry
getNodeStateInsert(T, c) ==
  [T EXCEPT !.records = Append(@, [id |-> T.calls[c].id, Activity |-> current_NOT_STARTED,
                                   LastPoll |-> 0, mux |-> 0]),
            !.NodeStates[T.calls[c].id] = Len(T.records) + 1,
            !.calls[c].pc = "return"]

\* GetNodeState, the return of the map entry
getNodeStateReturn(T, c) ==
  [T EXCEPT !.calls[c].node = T.NodeStates[T.calls[c].id],
            !.calls[c].pc = IF T.calls[c].op = "GetNodeState" THEN "done" ELSE "lock"]

\* UpdateNodeState from node.mux.Lock() on, with the record's lock held.
\* atomic.AddUint32 on a counter that is a nil pointer panics: the new
\* activity has been stored, the deferred Unlock runs and the process ends
updateNodeStateLocked(T, c, now) ==
  LET call == T.calls[c]
      roundState == ConvertToRoundState(call.newActivity)
      polled == [T EXCEPT !.records[call.node].LastPoll = now]
      unlocked(U, e) == [U EXCEPT !.records[call.node].mux = 0,
                                  !.calls[c].pc = "done", !.calls[c].err = e]
      stored == [polled EXCEPT !.records[call.node].Activity = call.newActivity]
  IN IF T.records[call.node].Activity = call.newActivity THEN unlocked(polled, FALSE)
     ELSE IF roundState = -1 THEN unlocked(polled, TRUE)
     ELSE IF T.NetworkStatus[roundState].nil
       THEN [unlocked(stored, FALSE) EXCEPT !.panicked = TRUE]
     ELSE [stored EXCEPT !.NetworkStatus[roundState].count = @ + 1,
                         !.calls[c].pc = "send"]

\* a goroutine calls GetNodeState or UpdateNodeState
StartCall(c) ==
  /\ storageState.calls[c].pc = "idle"
  /\ \E op \in {"GetNodeState", "UpdateNodeState"}, id \in 1..LookupIds, a \in LookupActivities :
       storageState' = [storageState EXCEPT !.calls[c] =
                          [IdleCall EXCEPT !.pc = "check", !.op = op, !.id = id,
                                           !.newActivity = IF op = "UpdateNodeState" THEN a
                                                           ELSE current_NOT_STARTED]]

\* the next step of the call of goroutine c. The map is read and written
\* without a lock: a write made while another goroutine is in the map
\* either goes through or is caught by the runtime, which ends the process
StepCall(c) ==
  LET call == storageState.calls[c]
  IN \/ /\ call.pc = "check"
        /\ storageState' = getNodeStateCheck(storageState, c)
     \/ /\ call.pc = "insert"
        /\ \/ storageState' = getNodeStateInsert(storageState, c)
           \/ /\ Racing(storageState, c)
              /\ storageState' = [storageState EXCEPT !.fatal = TRUE]
     \/ /\ call.pc = "return"
        /\ storageState' = getNodeStateReturn(storageState, c)
     \/ /\ call.pc = "lock"
        /\ storageState.records[call.node].mux = 0
        /\ storageState' = [storageState EXCEPT !.records[call.node].mux = c,
                                                !.calls[c].pc = "update"]
     \/ /\ call.pc = "update"
        /\ storageState' = updateNodeStateLocked(storageState, c, sc.now)

\* the top level receives from the Update channel: the sender returns and
\* its deferred Unlock runs
ReceiveUpdate(c) ==
  /\ storageState.calls[c].pc = "send"
  /\ storageState' = [storageState EXCEPT !.records[storageState.calls[c].node].mux = 0,
                                          !.calls[c].pc = "done"]

\* the calls of storage.State by goroutines that run concurrently
StateCall(c) ==
  /\ ~storageState.fatal
  /\ ~storageState.panicked
  /\ StartCall(c) \/ StepCall(c) \/ ReceiveUpdate(c)
  /\ UNCHANGED <<sc, netVarsNoClock, frontVars>>

InitNodeStates ==
  /\ InitFor(1..LookupIds, {1}, 0)
  /\ Limits(0, 0)
  /\ NoLookup
  /\ NoPrecheck
  /\ NoFront

NextNodeStates == \E c \in 1..LookupCallers : StateCall(c)

SpecNodeStates == InitNodeStates /\ [][NextNodeStates]_vars

\* the callers that have been handed a record
Holders == {c \in 1..LookupCallers : storageState.calls[c].node # 0}

\* C36: lookup-or-create is atomic: every caller that asked for a node id
\* holds the record the map has for that id, only one record has been
\* created for the id, and the process has not been ended by the calls
C36_AtomicLookupOrCreate ==
  /\ ~storageState.fatal
  /\ \A c \in Holders :
       storageState.calls[c].node = storageState.NodeStates[storageState.calls[c].id]
  /\ \A i, j \in 1..Len(storageState.records) :
       storageState.records[i].id = storageState.records[j].id => i = j

\* ===================================================================
\* Activity changes and their notifications (SpecShutdown)
\* ===================================================================

\* the step puts one notification of node n's new activity on the channel
Notified(n) ==
  /\ Len(updateChan') = Len(updateChan) + 1
  /\ updateChan'[Len(updateChan')].Node = n
  /\ updateChan'[Len(updateChan')].ToActivity = activity'[n]

\* C37: every change of a node's recorded activity is handed to the
\* scheduler as one update notification, and a poll that arrives after
\* Stopped is set does not change the node's recorded activity
C37_ChangeIsNotified ==
  [][\A n \in nodeMap :
       activity'[n] # activity[n] => (~stopped /\ pollingLock'[n] /\ Notified(n))]_vars

\* ===================================================================
\* The pool after a failed composition (SpecCompose)
\* ===================================================================

\* C38: when createSimpleRound returns an error, the nodes it has drawn
\* are still in the online subset of the pool: every node that was online
\* before the call is online after it
C38_FailedDrawKeepsPool ==
  (compose.done /\ compose.err \notin {"none", "panic"}) => compose.before.online \subseteq pool

\* ===================================================================
\* The node record after a failed address check (SpecNdf)
\* ===================================================================

\* C39: when checkIPAddresses returns an error, the node's recorded server
\* address, gateway address and connectivity are the same as before the
\* poll
C39_FailedAddressCheckKeepsRecord ==
  [][\A n \in nodeMap :
       (/\ \E op \in {"NodeAddress", "Lock", "GatewayEntry", "Publish"} : Stepped(op, n)
        /\ last'.err = "IPAddress") =>
         /\ nodeRec'[n].nodeAddress = last'.was.nodeAddress
         /\ nodeRec'[n].gatewayAddress = last'.was.gatewayAddress
         /\ nodeRec'[n].connectivity = last'.was.connectivity]_vars

\* ===================================================================
\* Finished rounds and the round map (Spec)
\* ===================================================================

\* C40: the round map does not keep finished rounds: whenever a round is
\* COMPLETED or FAILED, no member's current round is that round and the
\* scheduler has no notification left to handle, the round's record is
\* not in the round map
C40_FinishedRoundsLeaveMap ==
  \A rid \in Created :
    (/\ rounds[rid].State \in {states_COMPLETED, states_FAILED}
     /\ \A n \in Members(rounds[rid]) : currentRound[n] # rid
     /\ updateChan = <<>>)
    => rid \notin roundMap
====
